---- MODULE Spec2Model ----
(***************************************************************************)
(* The multi-sink reporter of packages/javascript/src/core/reporter.ts:    *)
(* the orchestrator QAgenticReporter (one active-run slot, counters,       *)
(* sequential fan-out to the configured sinks) and its four sinks          *)
(* ConsoleReporter, JSONReporter, JUnitReporter and APIReporter (batched   *)
(* delivery).  The adapter calls startRun / reportTest / endRun one after  *)
(* the other, awaiting each; every action below is one such awaited call.  *)
(*                                                                         *)
(* The step tracker of packages/javascript/src/core/step.ts follows: the   *)
(* module-level stack currentSteps, the Step objects with start / end, and *)
(* step(name, fn) with its synchronous and promise paths.                  *)
(***************************************************************************)
EXTENDS Integers, Sequences, FiniteSets, TLC

\* ---------------------------------------------------------------- bounds
MaxRuns == 2
MaxTests == 3
MaxBatchSize == 2
MaxSteps == 3
MaxCalls == 4
MaxClock == 3
MaxSpecs == 2

MaxInstances == 2

\* ------------------------------------------------------------- constants
NULL == 0
DefaultBatchSize == 100

StatusValues ==
  {"passed", "failed", "broken", "skipped", "pending", "running", "unknown"}

\* A TestResult as the core reads it: its status and whether errorMessage
\* holds a truthy value that is not a string (an adapter copies the
\* err.message of a failed test unchecked), on which String methods are
\* missing.  To the sinks a test is one that carries a usable error message
\* or none, or one that carries an unusable one; the orchestrator's counters
\* tell all seven statuses apart.
TestInputs ==
  {[status |-> "passed", badMsg |-> FALSE],
   [status |-> "failed", badMsg |-> TRUE]}

StatusInputs == [status : StatusValues, badMsg : {FALSE}]

\* A label map: label keys to label values.
Keys == {"team", "suite"}

LabelValues == {"a", "b"}

LabelMaps == UNION {[K -> LabelValues] : K \in SUBSET Keys}

NoLabels == [k \in {} |-> "a"]

\* A fully resolved configuration, as the constructor reads it; labels is
\* config.labels.custom, empty by default.
Config(console, local, formats, api, size) ==
  [consoleOutput |-> console, localEnabled |-> local, formats |-> formats,
   apiEnabled |-> api, batchSize |-> size, labels |-> NoLabels,
   cleanOnStart |-> TRUE]

\* The configurations the reporter is constructed with: every sink on, for
\* each batch size; the defaults of config.ts (console, json and html files,
\* API with its default batch size); files only, junit without json; nothing
\* at all; the console alone.
FullConfigs ==
  {Config(TRUE, TRUE, {"json", "junit"}, TRUE, b) : b \in 1..MaxBatchSize}

DefaultConfig == Config(TRUE, TRUE, {"json"}, TRUE, DefaultBatchSize)

FilesConfig == Config(FALSE, TRUE, {"junit"}, FALSE, DefaultBatchSize)

NoSinkConfig == Config(FALSE, FALSE, {"json"}, FALSE, DefaultBatchSize)

ConsoleConfig == Config(TRUE, FALSE, {"json"}, FALSE, DefaultBatchSize)

Configs == FullConfigs \cup {DefaultConfig, FilesConfig, NoSinkConfig}

CounterConfigs == {NoSinkConfig, ConsoleConfig}

VARIABLES
  config,      \* QAgenticReporter.config (shared with every sink)
  reporters,   \* QAgenticReporter.reporters, in registration order
  currentRun,  \* QAgenticReporter.currentRun: a run id, or NULL
  runs,        \* the TestRunResult objects created so far, by id
  nextTestId,  \* identity of the next TestResult an adapter hands in
  batch,       \* APIReporter.batch
  apiRun,      \* APIReporter.currentRun: a run id, or NULL (undefined)
  http,        \* the HTTP requests the last call issued, in order
  last,        \* what the last call did: its result and its sink calls
  handed,      \* every test APIReporter.reportTest received, in call order
  posted,      \* every batch POST APIReporter.flushBatch issued, in order
  registration, \* how the registration POST of APIReporter.currentRun ended
  created,     \* the last startRun: its options, the defaults it filled in
  flights,     \* the batch POSTs of flushBatch that have not settled yet
  currentSteps, \* step.ts currentSteps: the stack of Step objects, top last
  steps,        \* the Step objects created so far, by identity
  frames,       \* the invocations of step(name, fn) so far
  lastOp,       \* what the last call of the step tracker was
  testAttachments, \* severity.ts testAttachments: the test-level attachments
  now,          \* the clock: what new Date() reads, in milliseconds
  cypress,      \* the QAgenticCypressReporter of setupQAgentic and its handler
  outputDir,    \* the JSON files under config.local.outputDir
  singleton,    \* QAgenticReporter.instance and what getInstance returned
  settings,     \* config.ts defaultConfig and globalConfig, and the last call
  plugin        \* the after:spec handler of the qagentic plugin

reporter ==
  <<config, reporters, currentRun, runs, nextTestId, batch, apiRun, http, last,
    handed, posted, registration, created, flights>>

tracker == <<currentSteps, steps, frames, lastOp, testAttachments, now>>

\* What outlives the objects above: the files on disk and the statics.
host == <<outputDir, singleton, settings, plugin>>

vars ==
  <<config, reporters, currentRun, runs, nextTestId, batch, apiRun, http, last,
    handed, posted, registration, created, flights, currentSteps, steps,
    frames, lastOp, testAttachments, now, cypress, outputDir,
    singleton, settings, plugin>>

\* ------------------------------------------------------------ the sinks
\* What the sinks own between calls, threaded through one fan-out.
World == [batch |-> batch, apiRun |-> apiRun, http |-> <<>>]

\* How a callback can end: it returns (or its promise fulfils) or it throws
\* (or its promise rejects).  Every callback yields the set of its possible
\* endings, one per outcome of the I/O it performs.
Ok(w) == [w |-> w, threw |-> FALSE]
Thrown(w) == [w |-> w, threw |-> TRUE]

Ids(tests) == [i \in 1..Len(tests) |-> tests[i].id]

\* ConsoleReporter.startRun / endRun only print.
ConsoleStartRun(w, run) == {Ok(w)}

ConsoleEndRun(w, run) == {Ok(w)}

\* ConsoleReporter.reportTest: test.errorMessage.slice(0, 100) is a TypeError
\* when errorMessage is truthy and no string.
ConsoleReportTest(w, test) ==
  IF ~config.consoleOutput THEN {Ok(w)}
  ELSE IF test.badMsg THEN {Thrown(w)}
  ELSE {Ok(w)}

\* JSONReporter.startRun: existsSync / mkdirSync / readdirSync / unlinkSync,
\* none of them guarded: a file-system error leaves the method.
JSONStartRun(w, run) == {Ok(w), Thrown(w)}

\* JSONReporter.endRun: returns early unless the json format is on, then
\* writes run.json and tests/<id>.json with unguarded writeFileSync.
JSONEndRun(w, run) ==
  IF ~config.localEnabled \/ "json" \notin config.formats THEN {Ok(w)}
  ELSE {Ok(w), Thrown(w)}

JSONReportTest(w, test) == {Ok(w)}

\* JUnitReporter.startRun: existsSync / mkdirSync, unguarded.
JUnitStartRun(w, run) == {Ok(w), Thrown(w)}

\* JUnitReporter.generateXml: escape(test.errorMessage || ...) calls
\* String.replace on the error message of a failed, broken or skipped test.
GenerateXmlThrows(run) ==
  \E i \in 1..Len(run.tests) :
    /\ run.tests[i].status \in {"failed", "broken", "skipped"}
    /\ run.tests[i].badMsg

\* JUnitReporter.generateXml: the attributes of <testsuite>, copied from the
\* run's counters, and the elements emitted for run.tests: one <testcase> per
\* test, with a <failure>, <error> or <skipped> child for a failed, broken or
\* skipped test and no child for any other status.
GenerateXml(run) ==
  LET Elements(status) ==
        Cardinality({i \in 1..Len(run.tests) : run.tests[i].status = status})
  IN [tests |-> run.total, failures |-> run.failed, errors |-> run.broken,
      skipped |-> run.skipped,
      testcase |-> Len(run.tests), failure |-> Elements("failed"),
      error |-> Elements("broken"), skippedElements |-> Elements("skipped")]

\* JUnitReporter.endRun: returns early unless the junit format is on, then
\* builds the XML and writes junit.xml with an unguarded writeFileSync.
JUnitEndRun(w, run) ==
  IF ~config.localEnabled \/ "junit" \notin config.formats THEN {Ok(w)}
  ELSE IF GenerateXmlThrows(run) THEN {Thrown(w)}
  ELSE {Ok(w), Thrown(w)}

JUnitReportTest(w, test) == {Ok(w)}

\* One axios call: where it went, what it carried, and whether it succeeded
\* (a timeout, a 4xx and a 5xx all make axios reject).
Request(kind, run, tests, ok) ==
  [req |-> kind, run |-> run, tests |-> tests, ok |-> ok]

\* startRun that remembers the run and resets the batch only once the
\* registration POST has succeeded.
APIStartRunRegistersFirst(w, run) ==
  IF ~config.apiEnabled THEN {Ok(w)}
  ELSE {Ok([batch |-> IF ok THEN <<>> ELSE w.batch,
            apiRun |-> IF ok THEN run.id ELSE w.apiRun,
            http |-> Append(w.http, Request("register", run.id, <<>>, ok))]) :
          ok \in BOOLEAN}

\* APIReporter.startRun: remembers the run, resets the batch, POSTs the
\* registration; a failed POST is caught and logged.
APIStartRun(w, run) ==
  IF ~config.apiEnabled THEN {Ok(w)}
  ELSE {Ok([batch |-> <<>>,
            apiRun |-> run.id,
            http |-> Append(w.http, Request("register", run.id, <<>>, ok))]) :
          ok \in BOOLEAN}

\* flushBatch that empties the batch after a successful POST only, so that a
\* failed batch goes out again with the next flush.
FlushBatchKeepsFailed(w) ==
  IF Len(w.batch) = 0 \/ w.apiRun = NULL THEN {w}
  ELSE {[w EXCEPT
           !.http = Append(@, Request("results", w.apiRun, Ids(w.batch), ok)),
           !.batch = IF ok THEN <<>> ELSE @] : ok \in BOOLEAN}

\* APIReporter.flushBatch: nothing to do on an empty batch or without a
\* current run; otherwise POSTs the batch and, in finally, empties it.
FlushBatch(w) ==
  IF Len(w.batch) = 0 \/ w.apiRun = NULL THEN {w}
  ELSE {[w EXCEPT
           !.http = Append(@, Request("results", w.apiRun, Ids(w.batch), ok)),
           !.batch = <<>>] : ok \in BOOLEAN}

\* APIReporter.reportTest: push, then flush once the batch size is reached.
APIReportTest(w, test) ==
  IF ~config.apiEnabled THEN {Ok(w)}
  ELSE LET pushed == [w EXCEPT !.batch = Append(@, test)] IN
       IF Len(pushed.batch) >= config.batchSize
       THEN {Ok(f) : f \in FlushBatch(pushed)}
       ELSE {Ok(pushed)}

\* endRun without its try / catch: a failed PATCH leaves the method.
APIEndRunUncaught(w, run) ==
  IF ~config.apiEnabled THEN {Ok(w)}
  ELSE LET flushed == IF Len(w.batch) > 0 THEN FlushBatch(w) ELSE {w} IN
       {[w |-> [f EXCEPT
                  !.http = Append(@, Request("finalize", run.id, <<>>, ok))],
         threw |-> ~ok] :
          f \in flushed, ok \in BOOLEAN}

\* APIReporter.endRun: flushes what is left, then PATCHes the final counters;
\* both failures are caught and logged.
APIEndRun(w, run) ==
  IF ~config.apiEnabled THEN {Ok(w)}
  ELSE LET flushed == IF Len(w.batch) > 0 THEN FlushBatch(w) ELSE {w} IN
       {Ok([f EXCEPT
              !.http = Append(@, Request("finalize", run.id, <<>>, ok))]) :
          f \in flushed, ok \in BOOLEAN}

\* BaseReporter: the callback of sink `sink` for `method`.
SinkCall(method, sink, w, arg) ==
  CASE method = "startRun" /\ sink = "console" -> ConsoleStartRun(w, arg)
    [] method = "startRun" /\ sink = "json" -> JSONStartRun(w, arg)
    [] method = "startRun" /\ sink = "junit" -> JUnitStartRun(w, arg)
    [] method = "startRun" /\ sink = "api" -> APIStartRun(w, arg)
    [] method = "reportTest" /\ sink = "console" -> ConsoleReportTest(w, arg)
    [] method = "reportTest" /\ sink = "json" -> JSONReportTest(w, arg)
    [] method = "reportTest" /\ sink = "junit" -> JUnitReportTest(w, arg)
    [] method = "reportTest" /\ sink = "api" -> APIReportTest(w, arg)
    [] method = "endRun" /\ sink = "console" -> ConsoleEndRun(w, arg)
    [] method = "endRun" /\ sink = "json" -> JSONEndRun(w, arg)
    [] method = "endRun" /\ sink = "junit" -> JUnitEndRun(w, arg)
    [] method = "endRun" /\ sink = "api" -> APIEndRun(w, arg)

\* ------------------------------------------------------ the orchestrator
\* The constructor with the console pushed after the file and API sinks.
ReportersConsoleLast(c) ==
  (IF c.localEnabled
   THEN <<"json">> \o (IF "junit" \in c.formats THEN <<"junit">> ELSE <<>>)
   ELSE <<>>)
  \o (IF c.apiEnabled THEN <<"api">> ELSE <<>>)
  \o (IF c.consoleOutput THEN <<"console">> ELSE <<>>)

\* QAgenticReporter.constructor: which sinks are registered, in which order.
Reporters(c) ==
  (IF c.consoleOutput THEN <<"console">> ELSE <<>>)
  \o (IF c.localEnabled
      THEN <<"json">> \o (IF "junit" \in c.formats THEN <<"junit">> ELSE <<>>)
      ELSE <<>>)
  \o (IF c.apiEnabled THEN <<"api">> ELSE <<>>)

\* for (const reporter of this.reporters) await reporter.<method>(arg):
\* sink i is called, and awaited, before sink i+1 is called; an exception or
\* rejection leaves the loop and the calling method.  `calls` records when
\* each callback begins and how it ends.
RECURSIVE FanOutFrom(_, _, _, _, _)
FanOutFrom(i, method, w, calls, arg) ==
  IF i > Len(reporters) THEN {[w |-> w, calls |-> calls, threw |-> FALSE]}
  ELSE UNION {
         IF r.threw
         THEN {[w |-> r.w,
                calls |-> calls \o << <<"begin", i>>, <<"throw", i>> >>,
                threw |-> TRUE]}
         ELSE FanOutFrom(i + 1, method, r.w,
                         calls \o << <<"begin", i>>, <<"settle", i>> >>, arg)
         : r \in SinkCall(method, reporters[i], w, arg)}

FanOut(method, w, arg) == FanOutFrom(1, method, w, <<>>, arg)

\* passRate rounded down to a whole percentage.
PassRateTruncated(passed, total) ==
  IF total > 0 THEN [num |-> (passed * 100) \div total, den |-> 1]
  ELSE [num |-> 0, den |-> 1]

\* passRate as the exact quotient num / den (in percent).
PassRate(passed, total) ==
  IF total > 0 THEN [num |-> passed * 100, den |-> total]
  ELSE [num |-> 0, den |-> 1]

\* The TestRunResult startRun creates.
NewRun(id) ==
  [id |-> id, tests |-> <<>>, total |-> 0, passed |-> 0, failed |-> 0,
   broken |-> 0, skipped |-> 0, passRate |-> [num |-> 0, den |-> 1],
   ended |-> FALSE]

\* The switch with a default branch that counts every other status as skipped.
CountedWithDefault(run, test) ==
  [run EXCEPT
     !.tests = Append(@, test),
     !.total = @ + 1,
     !.passed = IF test.status = "passed" THEN @ + 1 ELSE @,
     !.failed = IF test.status = "failed" THEN @ + 1 ELSE @,
     !.broken = IF test.status = "broken" THEN @ + 1 ELSE @,
     !.skipped = IF test.status \notin {"passed", "failed", "broken"}
                 THEN @ + 1 ELSE @]

\* The switch with the break after case 'failed' missing: a failed test falls
\* through into case 'broken'.
CountedFallThrough(run, test) ==
  [run EXCEPT
     !.tests = Append(@, test),
     !.total = @ + 1,
     !.passed = IF test.status = "passed" THEN @ + 1 ELSE @,
     !.failed = IF test.status = "failed" THEN @ + 1 ELSE @,
     !.broken = IF test.status \in {"failed", "broken"} THEN @ + 1 ELSE @,
     !.skipped = IF test.status = "skipped" THEN @ + 1 ELSE @]

\* reportTest's push, total++ and switch (test.status).
Counted(run, test) ==
  [run EXCEPT
     !.tests = Append(@, test),
     !.total = @ + 1,
     !.passed = IF test.status = "passed" THEN @ + 1 ELSE @,
     !.failed = IF test.status = "failed" THEN @ + 1 ELSE @,
     !.broken = IF test.status = "broken" THEN @ + 1 ELSE @,
     !.skipped = IF test.status = "skipped" THEN @ + 1 ELSE @]

\* endRun's sealing: endTime / durationMs set, passRate recomputed.
Sealed(run) ==
  [run EXCEPT !.ended = TRUE, !.passRate = PassRate(run.passed, run.total)]

\* What a call hands back to the adapter, and what it did on the way:
\* before = the active run when the call began; outcome = how the promise
\* settled; val = the kind of value it resolved to and run = that run;
\* warned = console.warn of the orchestrator; calls = the sink callbacks.
Result(op, before, fan, val, run, warned, test) ==
  [op |-> op, before |-> before,
   outcome |-> IF fan.threw THEN "rejected" ELSE "resolved",
   val |-> IF fan.threw THEN "none" ELSE val,
   run |-> IF fan.threw THEN NULL ELSE run,
   warned |-> warned, calls |-> fan.calls, test |-> test,
   batchBefore |-> Len(batch)]

NoFan == [w |-> World, calls |-> <<>>, threw |-> FALSE]

\* The callback of the API sink began among `calls`.
APIBegan(calls) ==
  \E k \in 1..Len(calls) : \E i \in 1..Len(reporters) :
    reporters[i] = "api" /\ calls[k] = <<"begin", i>>

\* The traffic of the API sink over the whole execution, as call `op` made
\* while run `during` was the orchestrator's run adds to it: the test
\* this.batch.push received, the batches axios.post sent to .../results (the
\* run id in the URL and the tests in the body), and the outcome of the
\* registration POST of the run the sink now holds.
Observed(op, during, fan, test) ==
  LET posts == SelectSeq(fan.w.http, LAMBDA q : q.req = "results")
      regs == SelectSeq(fan.w.http, LAMBDA q : q.req = "register")
  IN /\ handed' = IF op = "reportTest" /\ APIBegan(fan.calls)
                  THEN Append(handed, [test |-> test, during |-> during])
                  ELSE handed
     /\ posted' = posted \o [k \in 1..Len(posts) |->
                               [op |-> op, during |-> during,
                                run |-> posts[k].run, tests |-> posts[k].tests]]
     /\ registration' = IF Len(regs) = 0 THEN registration
                        ELSE IF regs[1].ok THEN "ok" ELSE "failed"

\* The options of a startRun call, as far as its defaults go: id and name
\* are a string, possibly empty, or undefined; labels undefined spreads as
\* an empty map does.
OptionsInputs ==
  [id : {"undefined", "", "nightly-1"}, name : {"undefined", "", "nightly"},
   labels : LabelMaps]

\* startRun()
NoOptions == [id |-> "undefined", name |-> "undefined", labels |-> NoLabels]

\* What the left operand of || must be for the right one to be taken.
Falsy(value) == value \in {"undefined", ""}

\* uuidv4(): the n-th id generated.
Uuid(n) == "uuid-" \o ToString(n)

\* { ...defaults, ...labels }
Overlay(defaults, labels) ==
  [k \in DOMAIN defaults \cup DOMAIN labels |->
     IF k \in DOMAIN labels THEN labels[k] ELSE defaults[k]]

\* The spread with the operands the other way round.
RunDefaultsConfigWins(options, fresh) ==
  [id |-> IF Falsy(options.id) THEN fresh ELSE options.id,
   name |-> IF Falsy(options.name) THEN "run_" \o ToString(now)
            ELSE options.name,
   labels |-> Overlay(options.labels, config.labels)]

\* The id, name and labels of the object literal of startRun.
RunDefaults(options, fresh) ==
  [id |-> IF Falsy(options.id) THEN fresh ELSE options.id,
   name |-> IF Falsy(options.name) THEN "run_" \o ToString(now)
            ELSE options.name,
   labels |-> Overlay(config.labels, options.labels)]

\* No startRun call yet.
NoRunCreated ==
  [options |-> NoOptions,
   run |-> [id |-> "undefined", name |-> "undefined", labels |-> NoLabels],
   earlier |-> {}, count |-> 0]

\* QAgenticReporter.getCurrentRun
GetCurrentRun == currentRun

Constructed(configs) ==
  /\ config \in configs
  /\ reporters = Reporters(config)
  /\ currentRun = NULL
  /\ runs = <<>>
  /\ nextTestId = 1
  /\ batch = <<>>
  /\ apiRun = NULL
  /\ http = <<>>
  /\ last = Result("new", NULL, NoFan, "none", NULL, FALSE, NULL)
  /\ handed = <<>>
  /\ posted = <<>>
  /\ registration = "none"
  /\ created = NoRunCreated
  /\ flights = <<>>

\* QAgenticReporter.startRun: the slot is overwritten whatever it held, then
\* the sinks are told; the new run is returned.  created keeps the options,
\* the id, name and labels the run was given, and the ids of the runs before.
StartRunWith(options) ==
  /\ Len(runs) < MaxRuns
  /\ created' = [options |-> options,
                 run |-> RunDefaults(options, Uuid(Len(runs) + 1)),
                 earlier |-> IF created.count = 0 THEN {}
                             ELSE created.earlier \cup {created.run.id},
                 count |-> created.count + 1]
  /\ LET id == Len(runs) + 1
         run == NewRun(id)
     IN \E fan \in FanOut("startRun", World, run) :
          /\ runs' = Append(runs, run)
          /\ currentRun' = id
          /\ batch' = fan.w.batch
          /\ apiRun' = fan.w.apiRun
          /\ http' = fan.w.http
          /\ last' = Result("startRun", currentRun, fan, "run", id, FALSE, NULL)
          /\ Observed("startRun", id, fan, NULL)
  /\ UNCHANGED <<config, reporters, nextTestId, flights>>

\* startRun()
StartRun == StartRunWith(NoOptions)

\* QAgenticReporter.reportTest: without an active run, warn and return;
\* otherwise append, count, and tell the sinks.
ReportTest(inputs) ==
  IF currentRun = NULL
  THEN /\ last' = Result("reportTest", NULL, NoFan, "undefined", NULL, TRUE,
                         nextTestId)
       /\ http' = <<>>
       /\ UNCHANGED <<config, reporters, currentRun, runs, nextTestId, batch,
                      apiRun, handed, posted, registration, created, flights>>
  ELSE /\ nextTestId <= MaxTests
       /\ \E t \in inputs :
            LET test == [id |-> nextTestId, status |-> t.status,
                         badMsg |-> t.badMsg]
                run == Counted(runs[currentRun], test)
            IN \E fan \in FanOut("reportTest", World, test) :
                 /\ runs' = [runs EXCEPT ![currentRun] = run]
                 /\ batch' = fan.w.batch
                 /\ apiRun' = fan.w.apiRun
                 /\ http' = fan.w.http
                 /\ last' = Result("reportTest", currentRun, fan, "undefined",
                                   NULL, FALSE, test.id)
                 /\ Observed("reportTest", currentRun, fan, test.id)
       /\ nextTestId' = nextTestId + 1
       /\ UNCHANGED <<config, reporters, currentRun, created, flights>>

\* endRun that forgets to empty the slot.
EndRunKeepsSlot ==
  IF currentRun = NULL
  THEN /\ last' = Result("endRun", NULL, NoFan, "null", NULL, FALSE, NULL)
       /\ http' = <<>>
       /\ UNCHANGED <<config, reporters, currentRun, runs, nextTestId, batch,
                      apiRun, handed, posted, registration, created, flights>>
  ELSE /\ LET run == Sealed(runs[currentRun]) IN
          \E fan \in FanOut("endRun", World, run) :
            /\ runs' = [runs EXCEPT ![currentRun] = run]
            /\ currentRun' = currentRun
            /\ batch' = fan.w.batch
            /\ apiRun' = fan.w.apiRun
            /\ http' = fan.w.http
            /\ last' = Result("endRun", currentRun, fan, "run", currentRun,
                              FALSE, NULL)
            /\ Observed("endRun", currentRun, fan, NULL)
       /\ UNCHANGED <<config, reporters, nextTestId, created, flights>>

\* endRun that treats a missing run as an error.
EndRunIdleThrows ==
  IF currentRun = NULL
  THEN /\ last' = Result("endRun", NULL,
                         [w |-> World, calls |-> <<>>, threw |-> TRUE],
                         "null", NULL, FALSE, NULL)
       /\ http' = <<>>
       /\ UNCHANGED <<config, reporters, currentRun, runs, nextTestId, batch,
                      apiRun, handed, posted, registration, created, flights>>
  ELSE /\ LET run == Sealed(runs[currentRun]) IN
          \E fan \in FanOut("endRun", World, run) :
            /\ runs' = [runs EXCEPT ![currentRun] = run]
            /\ currentRun' = IF fan.threw THEN currentRun ELSE NULL
            /\ batch' = fan.w.batch
            /\ apiRun' = fan.w.apiRun
            /\ http' = fan.w.http
            /\ last' = Result("endRun", currentRun, fan, "run", currentRun,
                              FALSE, NULL)
            /\ Observed("endRun", currentRun, fan, NULL)
       /\ UNCHANGED <<config, reporters, nextTestId, created, flights>>

\* QAgenticReporter.endRun: without an active run, return null; otherwise
\* seal the run, tell the sinks, empty the slot and return the run.
EndRun ==
  IF currentRun = NULL
  THEN /\ last' = Result("endRun", NULL, NoFan, "null", NULL, FALSE, NULL)
       /\ http' = <<>>
       /\ UNCHANGED <<config, reporters, currentRun, runs, nextTestId, batch,
                      apiRun, handed, posted, registration, created, flights>>
  ELSE /\ LET run == Sealed(runs[currentRun]) IN
          \E fan \in FanOut("endRun", World, run) :
            /\ runs' = [runs EXCEPT ![currentRun] = run]
            /\ currentRun' = IF fan.threw THEN currentRun ELSE NULL
            /\ batch' = fan.w.batch
            /\ apiRun' = fan.w.apiRun
            /\ http' = fan.w.http
            /\ last' = Result("endRun", currentRun, fan, "run", currentRun,
                              FALSE, NULL)
            /\ Observed("endRun", currentRun, fan, NULL)
       /\ UNCHANGED <<config, reporters, nextTestId, created, flights>>

\* ------------------------------------------------------ the step tracker
NoStep == 0

\* What fn can throw or reject with, and what end(error?) can be given: an
\* Error object, or undefined (throw undefined, reject(), end()).  The test
\* `if (error)` of Step.end tells them apart.
Reasons == {"Error", "undefined"}

Truthy(error) == error = "Error"

\* error.message
Message(error) == IF error = "Error" THEN "message" ELSE "undefined"

\* What fn can return when it returns no promise, and what its promise can
\* fulfil with.
Values == {"value"}

\* startTime and endTime of a Step that has not been given them.
NoTime == 0

\* new Step(name, description): status pending, no times, durationMs 0, no
\* attachments, no children, no error.  starts and ends count the start() and
\* end() calls made on the object.
NewStep ==
  [status |-> "pending", children |-> <<>>, error |-> "undefined",
   starts |-> 0, ends |-> 0,
   startTime |-> NoTime, endTime |-> NoTime, durationMs |-> 0,
   attachments |-> <<>>]

\* The tracker's state as Step.start and Step.end read and write it.
Tracker == [stack |-> currentSteps, steps |-> steps]

\* getCurrentStep on a given stack: its last entry, or undefined.
Top(stack) == IF Len(stack) = 0 THEN NoStep ELSE stack[Len(stack)]

\* getCurrentStep
GetCurrentStep == Top(currentSteps)

\* Array.prototype.indexOf: the first position of x (0 when there is none).
IndexOf(seq, x) ==
  IF \E i \in 1..Len(seq) : seq[i] = x
  THEN CHOOSE i \in 1..Len(seq) :
         seq[i] = x /\ \A j \in 1..(i - 1) : seq[j] # x
  ELSE 0

\* Array.prototype.splice(index, 1)
Splice(seq, i) == SubSeq(seq, 1, i - 1) \o SubSeq(seq, i + 1, Len(seq))

\* endTime - startTime, computed when the step has a startTime.
Duration(step, endTime) ==
  IF step.startTime # NoTime THEN endTime - step.startTime ELSE step.durationMs

\* Step.start: startTime read off the clock, status running, pushed on the
\* stack (whatever the stack holds).
Started(T, s) ==
  [stack |-> Append(T.stack, s),
   steps |-> [T.steps EXCEPT ![s].status = "running", ![s].starts = @ + 1,
                             ![s].startTime = now]]

\* Step.end that looks for the parent before it takes the step off the stack.
EndedBeforePop(T, s, error) ==
  LET index == IndexOf(T.stack, s)
      parent == Top(T.stack)
      stack == IF index > 0 THEN Splice(T.stack, index) ELSE T.stack
      attached == IF parent # NoStep
                  THEN [T.steps EXCEPT ![parent].children = Append(@, s)]
                  ELSE T.steps
  IN [stack |-> stack,
      steps |-> [attached EXCEPT
                   ![s].status = IF Truthy(error) THEN "failed" ELSE "passed",
                   ![s].error = IF Truthy(error) THEN Message(error) ELSE @,
                   ![s].ends = @ + 1,
                   ![s].endTime = now,
                   ![s].durationMs = Duration(T.steps[s], now)]]

\* Step.end that takes the top entry off the stack, whichever step it is.
EndedPopsTop(T, s, error) ==
  LET index == IndexOf(T.stack, s)
      stack == IF index > 0 THEN SubSeq(T.stack, 1, Len(T.stack) - 1)
               ELSE T.stack
      parent == Top(stack)
      attached == IF parent # NoStep
                  THEN [T.steps EXCEPT ![parent].children = Append(@, s)]
                  ELSE T.steps
  IN [stack |-> stack,
      steps |-> [attached EXCEPT
                   ![s].status = IF Truthy(error) THEN "failed" ELSE "passed",
                   ![s].error = IF Truthy(error) THEN Message(error) ELSE @,
                   ![s].ends = @ + 1,
                   ![s].endTime = now,
                   ![s].durationMs = Duration(T.steps[s], now)]]

\* Step.end that records no endTime and computes no duration.
EndedUnstamped(T, s, error) ==
  LET index == IndexOf(T.stack, s)
      stack == IF index > 0 THEN Splice(T.stack, index) ELSE T.stack
      parent == Top(stack)
      attached == IF parent # NoStep
                  THEN [T.steps EXCEPT ![parent].children = Append(@, s)]
                  ELSE T.steps
  IN [stack |-> stack,
      steps |-> [attached EXCEPT
                   ![s].status = IF Truthy(error) THEN "failed" ELSE "passed",
                   ![s].error = IF Truthy(error) THEN Message(error) ELSE @,
                   ![s].ends = @ + 1]]

\* Step.end that takes the reading of the clock for the duration.
EndedSinceEpoch(T, s, error) ==
  LET index == IndexOf(T.stack, s)
      stack == IF index > 0 THEN Splice(T.stack, index) ELSE T.stack
      parent == Top(stack)
      attached == IF parent # NoStep
                  THEN [T.steps EXCEPT ![parent].children = Append(@, s)]
                  ELSE T.steps
  IN [stack |-> stack,
      steps |-> [attached EXCEPT
                   ![s].status = IF Truthy(error) THEN "failed" ELSE "passed",
                   ![s].error = IF Truthy(error) THEN Message(error) ELSE @,
                   ![s].ends = @ + 1,
                   ![s].endTime = now,
                   ![s].durationMs = now]]

\* Step.end: endTime is read off the clock and durationMs computed from it,
\* the first occurrence of the step leaves the stack, the step is
\* pushed onto the children of the step then on top, if any, and the status
\* follows `if (error)`.
Ended(T, s, error) ==
  LET index == IndexOf(T.stack, s)
      stack == IF index > 0 THEN Splice(T.stack, index) ELSE T.stack
      parent == Top(stack)
      attached == IF parent # NoStep
                  THEN [T.steps EXCEPT ![parent].children = Append(@, s)]
                  ELSE T.steps
  IN [stack |-> stack,
      steps |-> [attached EXCEPT
                   ![s].status = IF Truthy(error) THEN "failed" ELSE "passed",
                   ![s].error = IF Truthy(error) THEN Message(error) ELSE @,
                   ![s].ends = @ + 1,
                   ![s].endTime = now,
                   ![s].durationMs = Duration(T.steps[s], now)]]

\* What a call of the tracker was: the operation, the step and the error it
\* was given, the step() invocation it was made from, and whether every call
\* so far started a fresh step or ended the step on top.
Op(op, s, error, ctx, lifo) ==
  [op |-> op, step |-> s, error |-> error, ctx |-> ctx, lifo |-> lifo]

RECURSIVE CallsFrom(_)
CallsFrom(s) ==
  IF s > Len(steps) THEN 0
  ELSE steps[s].starts + steps[s].ends + Len(steps[s].attachments)
       + CallsFrom(s + 1)

\* The number of start(), end() and attach() calls made so far.
Calls == CallsFrom(1) + Len(testAttachments)

\* The module as loaded: an empty stack, no Step object, no call of step().
NoSteps ==
  /\ currentSteps = <<>>
  /\ steps = <<>>
  /\ frames = <<>>
  /\ lastOp = [op |-> "none", step |-> NoStep, error |-> "undefined",
               ctx |-> 0, lifo |-> TRUE]
  /\ testAttachments = <<>>
  /\ now = 1

\* createStep(name, description): a Step object that is not started.
CreateStep ==
  /\ Len(steps) < MaxSteps
  /\ steps' = Append(steps, NewStep)
  /\ lastOp' = Op("createStep", Len(steps) + 1, "undefined", 0, lastOp.lifo)
  /\ UNCHANGED <<currentSteps, frames>>
  /\ UNCHANGED <<testAttachments, now>>
  /\ UNCHANGED <<reporter, cypress, host>>

\* s.start() on any Step object: one just created, a running one, an ended one.
Start(s) ==
  /\ Calls < MaxCalls
  /\ LET T == Started(Tracker, s) IN
       /\ currentSteps' = T.stack
       /\ steps' = T.steps
  /\ lastOp' = Op("start", s, "undefined", 0,
                  lastOp.lifo /\ steps[s].starts = 0 /\ steps[s].ends = 0)
  /\ UNCHANGED frames
  /\ UNCHANGED <<testAttachments, now>>
  /\ UNCHANGED <<reporter, cypress, host>>

\* s.end(error) on any Step object, wherever it is on the stack or off it.
End(s, error) ==
  /\ Calls < MaxCalls
  /\ LET T == Ended(Tracker, s, error) IN
       /\ currentSteps' = T.stack
       /\ steps' = T.steps
  /\ lastOp' = Op("end", s, error, 0,
                  lastOp.lifo /\ GetCurrentStep = s /\ steps[s].ends = 0)
  /\ UNCHANGED frames
  /\ UNCHANGED <<testAttachments, now>>
  /\ UNCHANGED <<reporter, cypress, host>>

\* The attachments made so far, in the steps from s on.
RECURSIVE AttachedFrom(_)
AttachedFrom(s) ==
  IF s > Len(steps) THEN 0
  ELSE Len(steps[s].attachments) + AttachedFrom(s + 1)

\* attach() that always adds to the test-level attachments.
AttachToTest ==
  /\ Calls < MaxCalls
  /\ testAttachments' =
       Append(testAttachments, Len(testAttachments) + AttachedFrom(1) + 1)
  /\ lastOp' = Op("attach", GetCurrentStep, "undefined", 0, lastOp.lifo)
  /\ UNCHANGED <<currentSteps, steps, frames, now>>
  /\ UNCHANGED <<reporter, cypress, host>>

\* attach(data, name, type): an attachment with a fresh id goes to the
\* attachments of the step on top of the stack, or to testAttachments when
\* the stack is empty.
Attach ==
  /\ Calls < MaxCalls
  /\ LET attachment == Len(testAttachments) + AttachedFrom(1) + 1
         currentStep == GetCurrentStep
     IN IF currentStep # NoStep
        THEN /\ steps' = [steps EXCEPT
                            ![currentStep].attachments = Append(@, attachment)]
             /\ UNCHANGED testAttachments
        ELSE /\ testAttachments' = Append(testAttachments, attachment)
             /\ UNCHANGED steps
  /\ lastOp' = Op("attach", GetCurrentStep, "undefined", 0, lastOp.lifo)
  /\ UNCHANGED <<currentSteps, frames, now>>
  /\ UNCHANGED <<reporter, cypress, host>>

\* Time passes: the next new Date() reads a later instant.
Tick ==
  /\ now < MaxClock
  /\ now' = now + 1
  /\ UNCHANGED <<currentSteps, steps, frames, lastOp, testAttachments>>
  /\ UNCHANGED <<reporter, cypress, host>>

\* The invocation of step() whose fn is executing: invocations nest, so it is
\* the latest one that has not left its synchronous part (0: none).
Active ==
  IF \E f \in 1..Len(frames) : frames[f].state = "running"
  THEN CHOOSE f \in 1..Len(frames) :
         /\ frames[f].state = "running"
         /\ \A g \in (f + 1)..Len(frames) : frames[g].state # "running"
  ELSE 0

\* Where step() can be called from: the fn that is executing; or, between
\* tasks, the test body (0) or the continuation of an fn whose promise is
\* pending.
Callers ==
  IF Active # 0 THEN {Active}
  ELSE {0} \cup {f \in 1..Len(frames) : frames[f].state = "pending"}

\* An invocation of step(): its Step; where it was called from; how far it
\* is (running: fn executes; pending: fn returned a promise not yet settled;
\* returned, threw, fulfilled, rejected: how it ended); what fn produced and
\* what step() handed to its caller (returned or threw, or settled its
\* promise with).
Frame(s, ctx, state, result, out) ==
  [step |-> s, ctx |-> ctx, state |-> state, result |-> result, out |-> out]

\* step(name, fn) up to the call of fn: const s = new Step(...); s.start().
StepFn(ctx) ==
  /\ Len(steps) < MaxSteps
  /\ ctx \in Callers
  /\ LET s == Len(steps) + 1
         T == Started([stack |-> currentSteps, steps |-> Append(steps, NewStep)],
                      s)
     IN /\ currentSteps' = T.stack
        /\ steps' = T.steps
        /\ frames' = Append(frames, Frame(s, ctx, "running", "none", "none"))
        /\ lastOp' = Op("step", s, "undefined", ctx, lastOp.lifo)
  /\ UNCHANGED <<testAttachments, now>>
  /\ UNCHANGED <<reporter, cypress, host>>

\* fn returns a value that is no Promise: s.end(); return result.
FnReturns(v) ==
  /\ Active # 0
  /\ LET f == Active
         T == Ended(Tracker, frames[f].step, "undefined")
     IN /\ currentSteps' = T.stack
        /\ steps' = T.steps
        /\ frames' = [frames EXCEPT ![f].state = "returned", ![f].result = v,
                                    ![f].out = v]
        /\ lastOp' = Op("return", frames[f].step, "undefined", f, lastOp.lifo)
  /\ UNCHANGED <<testAttachments, now>>
  /\ UNCHANGED <<reporter, cypress, host>>

\* fn throws: catch (error) { s.end(error); throw error }.
FnThrows(e) ==
  /\ Active # 0
  /\ LET f == Active
         T == Ended(Tracker, frames[f].step, e)
     IN /\ currentSteps' = T.stack
        /\ steps' = T.steps
        /\ frames' = [frames EXCEPT ![f].state = "threw", ![f].result = e,
                                    ![f].out = e]
        /\ lastOp' = Op("throw", frames[f].step, e, f, lastOp.lifo)
  /\ UNCHANGED <<testAttachments, now>>
  /\ UNCHANGED <<reporter, cypress, host>>

\* fn returns a Promise: step() returns result.then(...).catch(...) and the
\* step stays as it is.
FnReturnsPromise ==
  /\ Active # 0
  /\ LET f == Active IN
       /\ frames' = [frames EXCEPT ![f].state = "pending"]
       /\ lastOp' = Op("promise", frames[f].step, "undefined", f, lastOp.lifo)
  /\ UNCHANGED <<currentSteps, steps>>
  /\ UNCHANGED <<testAttachments, now>>
  /\ UNCHANGED <<reporter, cypress, host>>

\* The promise of fn fulfils: .then((value) => { s.end(); return value }).
\* The reaction runs as a task of its own, while no fn executes.
Fulfils(f, v) ==
  /\ Active = 0
  /\ f \in 1..Len(frames)
  /\ frames[f].state = "pending"
  /\ LET T == Ended(Tracker, frames[f].step, "undefined") IN
       /\ currentSteps' = T.stack
       /\ steps' = T.steps
  /\ frames' = [frames EXCEPT ![f].state = "fulfilled", ![f].result = v,
                              ![f].out = v]
  /\ lastOp' = Op("fulfil", frames[f].step, "undefined", f, lastOp.lifo)
  /\ UNCHANGED <<testAttachments, now>>
  /\ UNCHANGED <<reporter, cypress, host>>

\* The rejection reaction that re-throws without ending the step.
RejectsUnended(f, e) ==
  /\ Active = 0
  /\ f \in 1..Len(frames)
  /\ frames[f].state = "pending"
  /\ frames' = [frames EXCEPT ![f].state = "rejected", ![f].result = e,
                              ![f].out = e]
  /\ lastOp' = Op("reject", frames[f].step, e, f, lastOp.lifo)
  /\ UNCHANGED <<currentSteps, steps>>
  /\ UNCHANGED <<testAttachments, now>>
  /\ UNCHANGED <<reporter, cypress, host>>

\* The promise of fn rejects: .catch((error) => { s.end(error); throw error }).
Rejects(f, e) ==
  /\ Active = 0
  /\ f \in 1..Len(frames)
  /\ frames[f].state = "pending"
  /\ LET T == Ended(Tracker, frames[f].step, e) IN
       /\ currentSteps' = T.stack
       /\ steps' = T.steps
  /\ frames' = [frames EXCEPT ![f].state = "rejected", ![f].result = e,
                              ![f].out = e]
  /\ lastOp' = Op("reject", frames[f].step, e, f, lastOp.lifo)
  /\ UNCHANGED <<testAttachments, now>>
  /\ UNCHANGED <<reporter, cypress, host>>

\* ------------------------------------------- the Cypress one-line setup
\* The states Cypress gives a test in the results of after:spec.
CypressStates == {"passed", "failed", "pending", "skipped"}

\* results.tests of a spec file: the states of its tests, in order.
SpecResults ==
  {<<"passed">>, <<"failed", "skipped">>, <<"pending", "passed">>}

\* parseStatus, on lower-case values.
ParseStatus(value) ==
  CASE value \in {"passed", "pass", "success"} -> "passed"
    [] value \in {"failed", "fail", "failure"} -> "failed"
    [] value \in {"broken", "error"} -> "broken"
    [] value \in {"skipped", "skip", "pending"} -> "skipped"
    [] value = "running" -> "running"
    [] OTHER -> "unknown"

\* new QAgenticCypressReporter(config): no run, nothing started or
\* finalized, no pending test, stats at zero.  pc is where the after:spec
\* handler stands, next the position of sendPendingTests in pendingTests,
\* specs and seen count the after:spec events and the tests they carried.
NewCypressReporter ==
  [pc |-> "idle", currentRun |-> NULL, runStarted |-> FALSE,
   runFinalized |-> FALSE, pendingTests |-> <<>>, next |-> 1,
   stats |-> [tests |-> 0, passes |-> 0, failures |-> 0, pending |-> 0],
   specs |-> 0, seen |-> 0]

NoAdapter == cypress = NewCypressReporter

\* How many of the states are the given one.
StatesOf(tests, state) ==
  Cardinality({k \in 1..Len(tests) : tests[k] = state})

\* onTestEnd for each test of the spec: without a run of its own the adapter
\* returns at once; otherwise it builds the TestResult, updates the stats
\* and pushes onto pendingTests.
Collected(c, tests) ==
  IF c.currentRun = NULL THEN c
  ELSE [c EXCEPT
          !.pendingTests =
             @ \o [k \in 1..Len(tests) |->
                     [state |-> tests[k], status |-> ParseStatus(tests[k])]],
          !.stats = [tests |-> @.tests + Len(tests),
                     passes |-> @.passes + StatesOf(tests, "passed"),
                     failures |-> @.failures + StatesOf(tests, "failed"),
                     pending |-> @.pending + StatesOf(tests, "pending")]]

\* The after:spec handler up to sendPendingTests: ensureRunStarted (which
\* calls onRunBegin and so startRun the first time only, a failure being
\* caught and logged), then onTestEnd for every test of the spec.
AfterSpec(tests) ==
  /\ cypress.pc = "idle"
  /\ cypress.specs < MaxSpecs
  /\ IF cypress.runStarted THEN UNCHANGED reporter ELSE StartRun
  /\ LET run == IF cypress.runStarted \/ last'.outcome # "resolved"
                THEN cypress.currentRun
                ELSE last'.run
         began == [cypress EXCEPT !.pc = "send", !.runStarted = TRUE,
                                  !.currentRun = run, !.next = 1,
                                  !.specs = @ + 1, !.seen = @ + Len(tests)]
     IN cypress' = Collected(began, tests)
  /\ UNCHANGED <<tracker, host>>

\* sendPendingTests, one turn of its loop: await reporter.reportTest.  A
\* rejection leaves the loop and the handler through its catch, with
\* pendingTests as they are.
SendPendingTest ==
  /\ cypress.pc = "send"
  /\ cypress.next <= Len(cypress.pendingTests)
  /\ ReportTest({[status |-> cypress.pendingTests[cypress.next].status,
                  badMsg |-> FALSE]})
  /\ cypress' = IF last'.outcome = "rejected"
                THEN [cypress EXCEPT !.pc = "idle"]
                ELSE [cypress EXCEPT !.next = @ + 1]
  /\ UNCHANGED <<tracker, host>>

\* The end of sendPendingTests (pendingTests emptied) and finalizeRun up to
\* its call of endRun: nothing when the run was finalized before or never
\* obtained; otherwise the run's counters are overwritten from the stats.
FinalizeRun ==
  /\ cypress.pc = "send"
  /\ cypress.next > Len(cypress.pendingTests)
  /\ IF cypress.runFinalized \/ cypress.currentRun = NULL
     THEN /\ cypress' = [cypress EXCEPT !.pc = "idle", !.pendingTests = <<>>]
          /\ UNCHANGED runs
     ELSE /\ cypress' = [cypress EXCEPT !.pc = "endRun",
                                        !.pendingTests = <<>>,
                                        !.runFinalized = TRUE]
          /\ runs' = [runs EXCEPT ![cypress.currentRun] =
                        [@ EXCEPT !.total = cypress.stats.tests,
                                  !.passed = cypress.stats.passes,
                                  !.failed = cypress.stats.failures,
                                  !.skipped = cypress.stats.pending]]
  /\ UNCHANGED <<config, reporters, currentRun, nextTestId, batch, apiRun,
                 http, last, handed, posted, registration, created, flights>>
  /\ UNCHANGED <<tracker, host>>

\* finalizeRun's await reporter.endRun(), a failure being caught and logged;
\* the handler is done.
FinalizeEndRun ==
  /\ cypress.pc = "endRun"
  /\ EndRun
  /\ cypress' = [cypress EXCEPT !.pc = "idle"]
  /\ UNCHANGED <<tracker, host>>

\* --------------------------------------- the JSON files on disk
\* The JSON files under the output directory: run.json, by the id of the run
\* it describes (NULL when there is none), and tests/<id>.json, by the ids.
NoFiles == [run |-> NULL, tests |-> {}]

\* private static instance = null.  The QAgenticReporter objects are numbered
\* in the order of their construction: made counts the ones getInstance
\* constructed, instance is the one the static field holds (NULL: none), got
\* the one the last getInstance call returned and arg what it was given.
NoInstance == [instance |-> NULL, made |-> 0, got |-> NULL, arg |-> "undefined"]

\* The nested objects of a QAgenticConfig.
Nested == {"api", "local", "features", "labels"}

\* The literal of defaultConfig, with the fields configure can set.
OriginalDefaults ==
  [projectName |-> "default", environment |-> "local",
   api |-> [enabled |-> TRUE, url |-> "http://localhost:8080",
            key |-> "undefined"],
   local |-> [enabled |-> TRUE, outputDir |-> "./qagentic-results"],
   features |-> [consoleOutput |-> TRUE],
   labels |-> [team |-> "undefined"]]

\* let globalConfig = { ...defaultConfig }: the spread copies the top-level
\* fields, so that each nested field of the copy is the very object
\* defaultConfig holds.  defaults is defaultConfig, global the object
\* globalConfig refers to, shared the nested fields in which global still
\* holds the object of defaultConfig (what global records there is then of
\* no account and kept at the original value); op and options are the last
\* call of configure / resetConfig.
ShallowCopy(defaults) ==
  [projectName |-> defaults.projectName, environment |-> defaults.environment,
   api |-> OriginalDefaults.api, local |-> OriginalDefaults.local,
   features |-> OriginalDefaults.features, labels |-> OriginalDefaults.labels]

\* configure()
NoConfigureOptions ==
  [projectName |-> "undefined", environment |-> "undefined",
   apiUrl |-> "undefined", apiKey |-> "undefined", outputDir |-> "undefined",
   nested |-> {}]

ModuleLoaded ==
  [defaults |-> OriginalDefaults, global |-> ShallowCopy(OriginalDefaults),
   shared |-> Nested, op |-> "none", options |-> NoConfigureOptions]

\* qagentic(on, config) has registered its handlers and none has run: pc is
\* where the after:spec handler stands, tests the results.tests it was
\* given, next its position in them, mapped the TestResults it built (with
\* the test each was built from), outcome how its promise settled the last
\* time, specs the number of after:spec events.
NoPlugin ==
  [pc |-> "idle", tests |-> <<>>, next |-> 1, mapped |-> <<>>,
   outcome |-> "none", specs |-> 0]

NoHost ==
  /\ outputDir = NoFiles
  /\ singleton = NoInstance
  /\ settings = ModuleLoaded
  /\ plugin = NoPlugin

\* The cleaning loop of JSONReporter.startRun: every entry of
\* readdirSync(outputDir) whose name ends with .json is unlinked; `tests` is
\* an entry of another name.
Cleaned(files) == [files EXCEPT !.run = NULL]

\* JSONReporter.endRun's writes, the first n test files written: run.json,
\* then tests/<id>.json in the order of run.tests.
Written(files, run, n) ==
  [run |-> run.id, tests |-> files.tests \cup {run.tests[i].id : i \in 1..n}]

\* How the callback of the JSON sink ended among `calls`: "settle", "throw",
\* or "none" when it was not called.
JSONOutcome(calls) ==
  IF \E k \in 1..Len(calls) : \E i \in 1..Len(reporters) :
       reporters[i] = "json" /\ calls[k] = <<"settle", i>>
  THEN "settle"
  ELSE IF \E k \in 1..Len(calls) : \E i \in 1..Len(reporters) :
            reporters[i] = "json" /\ calls[k] = <<"throw", i>>
       THEN "throw"
       ELSE "none"

\* The files JSONReporter.startRun can leave: with cleanOnStart the directory
\* cleaned when it returns; when it throws (mkdirSync, readdirSync or
\* unlinkSync failed) the one file there is to unlink, run.json, is still
\* in place.
JSONStartRunFiles(files, outcome) ==
  IF outcome = "settle" /\ config.cleanOnStart THEN {Cleaned(files)}
  ELSE {files}

\* The files JSONReporter.endRun can leave: nothing is written unless the
\* json format is on; when it returns, run.json and every test file; when it
\* throws, the files written before the writeFileSync or mkdirSync that
\* failed.
JSONEndRunFiles(files, run, outcome) ==
  IF ~config.localEnabled \/ "json" \notin config.formats THEN {files}
  ELSE IF outcome = "settle" THEN {Written(files, run, Len(run.tests))}
  ELSE IF outcome = "throw"
       THEN {files} \cup {Written(files, run, n) : n \in 0..(Len(run.tests) - 1)}
       ELSE {files}

\* startRun, reportTest and endRun with what the JSON sink does to the files.
FilesStartRun ==
  /\ currentRun = NULL
  /\ StartRun
  /\ outputDir' \in JSONStartRunFiles(outputDir, JSONOutcome(last'.calls))
  /\ UNCHANGED <<tracker, cypress, singleton, settings, plugin>>

FilesReportTest ==
  /\ ReportTest(TestInputs)
  /\ UNCHANGED outputDir
  /\ UNCHANGED <<tracker, cypress, singleton, settings, plugin>>

FilesEndRun ==
  /\ EndRun
  /\ outputDir' \in IF currentRun = NULL THEN {outputDir}
                    ELSE JSONEndRunFiles(outputDir, runs'[currentRun],
                                         JSONOutcome(last'.calls))
  /\ UNCHANGED <<tracker, cypress, singleton, settings, plugin>>

\* ------------------------------------------------ the qagentic plugin
\* A test of results.tests, as far as the handler reads it: state, duration
\* and err, each of which can be missing.
PluginTests ==
  [state : {"passed", "FAILED", "undefined"}, duration : {"12", "undefined"},
   err : {"given", "undefined"}]

\* results.tests: no test (or no results at all), one test, or a test with
\* every field followed by a second test.
PluginResults ==
  {<<>>} \cup {<<t>> : t \in PluginTests}
  \cup {<<t, u>> : t \in {x \in PluginTests : /\ x.state # "undefined"
                                                /\ x.duration = "12"
                                                /\ x.err = "given"},
                   u \in {x \in PluginTests : x.err = "undefined"}}

\* String.prototype.toLowerCase
ToLowerCase(value) ==
  CASE value = "FAILED" -> "failed"
    [] value = "PASSED" -> "passed"
    [] OTHER -> value

\* parseStatus(value): value.toLowerCase() is a TypeError when value is
\* undefined.
ParseStatusOf(value) ==
  IF value = "undefined" THEN [threw |-> TRUE, status |-> "none"]
  ELSE [threw |-> FALSE, status |-> ParseStatus(ToLowerCase(value))]

\* The TestResult literal of the handler: status, durationMs and, when
\* test.err is there, errorMessage.
TestResultOf(test) ==
  [status |-> ParseStatusOf(test.state).status, durationMs |-> test.duration,
   errorMessage |-> IF test.err = "undefined" THEN "undefined" ELSE "message"]

\* on('before:run'): await reporter.startRun(...)
PluginBeforeRun ==
  /\ plugin.pc = "idle"
  /\ currentRun = NULL
  /\ StartRun
  /\ UNCHANGED <<tracker, cypress, host>>

\* on('after:spec') up to its loop: nothing to do without results.tests.
PluginAfterSpec(tests) ==
  /\ plugin.pc = "idle"
  /\ plugin.specs < MaxSpecs
  /\ plugin' = [pc |-> IF Len(tests) = 0 THEN "idle" ELSE "loop",
                tests |-> tests, next |-> 1, mapped |-> <<>>,
                outcome |-> IF Len(tests) = 0 THEN "resolved" ELSE "pending",
                specs |-> plugin.specs + 1]
  /\ UNCHANGED <<reporter, tracker, cypress, outputDir, singleton, settings>>

\* One turn of the loop: the TestResult is built and handed to
\* reporter.reportTest, which is awaited.  Nothing catches an exception of
\* parseStatus or a rejection of reportTest: the handler's promise rejects.
\* After the last test the promise fulfils.
PluginTest ==
  /\ plugin.pc = "loop"
  /\ LET test == plugin.tests[plugin.next]
         last_one == plugin.next = Len(plugin.tests)
     IN IF ParseStatusOf(test.state).threw
        THEN /\ plugin' = [plugin EXCEPT !.pc = "idle", !.outcome = "rejected"]
             /\ UNCHANGED reporter
        ELSE /\ ReportTest({[status |-> TestResultOf(test).status,
                             badMsg |-> FALSE]})
             /\ plugin' =
                  [plugin EXCEPT
                     !.mapped = Append(@, [test |-> test,
                                           result |-> TestResultOf(test)]),
                     !.next = @ + 1,
                     !.pc = IF last'.outcome = "rejected" \/ last_one
                            THEN "idle" ELSE "loop",
                     !.outcome = IF last'.outcome = "rejected" THEN "rejected"
                                 ELSE IF last_one THEN "resolved" ELSE @]
  /\ UNCHANGED <<tracker, cypress, outputDir, singleton, settings>>

\* on('after:run'): await reporter.endRun()
PluginAfterRun ==
  /\ plugin.pc = "idle"
  /\ EndRun
  /\ UNCHANGED <<tracker, cypress, host>>

\* ---------------------------------------------------- the configuration
\* What configure can be given: each top-level option given or not, and any
\* of the nested objects api, local, features and labels given.
ConfigureOptions ==
  [projectName : {"undefined", "shop"}, environment : {"undefined", "ci"},
   apiUrl : {"undefined", "https://qa.example"},
   apiKey : {"undefined", "secret"}, outputDir : {"undefined", "./out"},
   nested : SUBSET Nested]

\* The nested object given as options.api, .local, .features, .labels.
NestedOption(k) ==
  CASE k = "api" -> [enabled |-> FALSE]
    [] k = "local" -> [enabled |-> FALSE]
    [] k = "features" -> [consoleOutput |-> FALSE]
    [] k = "labels" -> [team |-> "core"]

\* The value of the nested field k of globalConfig in s.
Field(s, k) == IF k \in s.shared THEN s.defaults[k] ELSE s.global[k]

\* globalConfig.<k>.<f> = value: an assignment into the object the field
\* holds, which is defaultConfig's own object while the field is shared.
AssignIn(s, k, f, value) ==
  IF value = "undefined" THEN s
  ELSE IF k \in s.shared
       THEN [s EXCEPT !.defaults[k] = [@ EXCEPT ![f] = value]]
       ELSE [s EXCEPT !.global[k] = [@ EXCEPT ![f] = value]]

\* globalConfig.<k> = { ...globalConfig.<k>, ...options.<k> }: a new object.
Merged(s, k, given) ==
  IF k \notin given THEN s
  ELSE [s EXCEPT !.global[k] = Overlay(Field(s, k), NestedOption(k)),
                 !.shared = @ \ {k}]

\* autoDiscover() with no qagentic.yaml and no QAGENTIC_* variable set:
\* { ...defaultConfig }.
AutoDiscover(s) ==
  [s EXCEPT !.global = ShallowCopy(s.defaults), !.shared = Nested]

\* getConfig(): globalConfig, read through to its nested objects.
GetConfig ==
  [projectName |-> settings.global.projectName,
   environment |-> settings.global.environment,
   api |-> Field(settings, "api"), local |-> Field(settings, "local"),
   features |-> Field(settings, "features"),
   labels |-> Field(settings, "labels")]

\* configure(options)
Configure(options) ==
  LET discovered == AutoDiscover(settings)
      named == [discovered EXCEPT
                  !.global.projectName =
                     IF options.projectName = "undefined" THEN @
                     ELSE options.projectName,
                  !.global.environment =
                     IF options.environment = "undefined" THEN @
                     ELSE options.environment]
      url == AssignIn(named, "api", "url", options.apiUrl)
      key == AssignIn(url, "api", "key", options.apiKey)
      dir == AssignIn(key, "local", "outputDir", options.outputDir)
      api == Merged(dir, "api", options.nested)
      local == Merged(api, "local", options.nested)
      features == Merged(local, "features", options.nested)
      labels == Merged(features, "labels", options.nested)
  IN /\ settings' = [labels EXCEPT !.op = "configure", !.options = options]
     /\ UNCHANGED <<reporter, tracker, cypress, outputDir, singleton, plugin>>

\* resetConfig(): globalConfig = { ...defaultConfig }
ResetConfig ==
  /\ settings' = [AutoDiscover(settings) EXCEPT
                    !.op = "resetConfig", !.options = NoConfigureOptions]
  /\ UNCHANGED <<reporter, tracker, cypress, outputDir, singleton, plugin>>

\* ------------------------------------------------------ the singleton
\* What getInstance / getReporter can be given: no config, or a config.
InstanceArgs == {"undefined", "console", "files"}

\* this.config = config || getConfig(), nothing having been configured.
InstanceConfig(arg) ==
  CASE arg = "console" -> ConsoleConfig
    [] arg = "files" -> FilesConfig
    [] OTHER -> DefaultConfig

\* getInstance that makes a new orchestrator whenever it is given a config.
GetInstanceHonoursConfig(arg) ==
  /\ IF singleton.instance = NULL \/ arg # "undefined"
     THEN /\ singleton.made < MaxInstances
          /\ singleton' = [instance |-> singleton.made + 1,
                           made |-> singleton.made + 1,
                           got |-> singleton.made + 1, arg |-> arg]
          /\ config' = InstanceConfig(arg)
          /\ reporters' = Reporters(InstanceConfig(arg))
          /\ currentRun' = NULL
          /\ batch' = <<>>
          /\ apiRun' = NULL
          /\ http' = <<>>
          /\ last' = [Result("new", NULL, NoFan, "none", NULL, FALSE, NULL)
                        EXCEPT !.batchBefore = 0]
          /\ handed' = <<>>
          /\ posted' = <<>>
          /\ registration' = "none"
          /\ flights' = <<>>
          /\ UNCHANGED <<runs, nextTestId, created>>
     ELSE /\ singleton' = [singleton EXCEPT !.got = singleton.instance,
                                            !.arg = arg]
          /\ UNCHANGED reporter
  /\ UNCHANGED <<tracker, cypress, outputDir, settings, plugin>>

\* QAgenticReporter.getInstance(config?) and getReporter(config?): the
\* orchestrator the static field holds, constructed with `config` when the
\* field holds none.  The reporter variables follow the orchestrator
\* constructed last.
GetInstance(arg) ==
  /\ IF singleton.instance = NULL
     THEN /\ singleton.made < MaxInstances
          /\ singleton' = [instance |-> singleton.made + 1,
                           made |-> singleton.made + 1,
                           got |-> singleton.made + 1, arg |-> arg]
          /\ config' = InstanceConfig(arg)
          /\ reporters' = Reporters(InstanceConfig(arg))
          /\ currentRun' = NULL
          /\ batch' = <<>>
          /\ apiRun' = NULL
          /\ http' = <<>>
          /\ last' = [Result("new", NULL, NoFan, "none", NULL, FALSE, NULL)
                        EXCEPT !.batchBefore = 0]
          /\ handed' = <<>>
          /\ posted' = <<>>
          /\ registration' = "none"
          /\ flights' = <<>>
          /\ UNCHANGED <<runs, nextTestId, created>>
     ELSE /\ singleton' = [singleton EXCEPT !.got = singleton.instance,
                                            !.arg = arg]
          /\ UNCHANGED reporter
  /\ UNCHANGED <<tracker, cypress, outputDir, settings, plugin>>

\* QAgenticReporter.reset()
Reset ==
  /\ singleton' = [singleton EXCEPT !.instance = NULL]
  /\ UNCHANGED <<reporter, tracker, cypress, outputDir, settings, plugin>>

\* ------------------------------- calls that overlap at the flush POST
\* A request of the API sink that has been issued and has not settled: the
\* batch POST of a flushBatch called from `op`, or the finalize PATCH.
Flight(req, op, tests) == [req |-> req, op |-> op, tests |-> tests]

\* flushBatch up to its await: the POST carries the buffer as it is now.
FlushBegins(op, buffer) ==
  /\ flights' = Append(flights, Flight("results", op, Ids(buffer)))
  /\ posted' = Append(posted, [op |-> op, during |-> currentRun,
                               run |-> apiRun, tests |-> Ids(buffer)])

\* reportTest with the API sink as the only sink, called without waiting for
\* the calls before it, up to where it suspends or returns: the test is
\* appended and counted, pushed onto the buffer, and flushBatch is entered
\* once the batch size is reached.
ReportTestBegins(inputs) ==
  /\ currentRun # NULL
  /\ nextTestId <= MaxTests
  /\ \E t \in inputs :
       LET test == [id |-> nextTestId, status |-> t.status,
                    badMsg |-> t.badMsg]
           pushed == Append(batch, test)
       IN /\ runs' = [runs EXCEPT ![currentRun] = Counted(@, test)]
          /\ batch' = pushed
          /\ handed' = Append(handed, [test |-> test.id, during |-> currentRun])
          /\ IF Len(pushed) >= config.batchSize /\ apiRun # NULL
             THEN FlushBegins("reportTest", pushed)
             ELSE UNCHANGED <<flights, posted>>
          /\ last' = Result("reportTest", currentRun, NoFan, "undefined", NULL,
                            FALSE, test.id)
  /\ nextTestId' = nextTestId + 1
  /\ http' = <<>>
  /\ UNCHANGED <<config, reporters, currentRun, apiRun, registration, created>>

\* endRun with the API sink as the only sink, up to its first await: the run
\* is sealed, and the sink flushes a buffer that is not empty or goes on to
\* the finalize PATCH.
EndRunBegins ==
  /\ currentRun # NULL
  /\ \A f \in 1..Len(flights) : flights[f].op # "endRun"
  /\ runs' = [runs EXCEPT ![currentRun] = Sealed(@)]
  /\ IF Len(batch) > 0 /\ apiRun # NULL
     THEN FlushBegins("endRun", batch)
     ELSE /\ flights' = Append(flights, Flight("finalize", "endRun", <<>>))
          /\ UNCHANGED posted
  /\ last' = Result("endRun", currentRun, NoFan, "run", currentRun, FALSE, NULL)
  /\ http' = <<>>
  /\ UNCHANGED <<config, reporters, currentRun, nextTestId, batch, apiRun,
                 handed, registration, created>>

\* The sequence without its entry f.
Landed(f) == SubSeq(flights, 1, f - 1) \o SubSeq(flights, f + 1, Len(flights))

\* A batch POST settles: whatever its outcome, finally { this.batch = [] };
\* the flush of endRun is followed by the wait and the finalize PATCH.
PostSettles(f, ok) ==
  /\ f \in 1..Len(flights)
  /\ flights[f].req = "results"
  /\ batch' = <<>>
  /\ flights' = IF flights[f].op = "endRun"
                THEN Append(Landed(f), Flight("finalize", "endRun", <<>>))
                ELSE Landed(f)
  /\ http' = <<Request("results", apiRun, flights[f].tests, ok)>>
  /\ UNCHANGED <<config, reporters, currentRun, runs, nextTestId, apiRun, last,
                 handed, posted, registration, created>>

\* The finalize PATCH settles: the sink's endRun returns and the
\* orchestrator empties the slot.
PatchSettles(f, ok) ==
  /\ f \in 1..Len(flights)
  /\ flights[f].req = "finalize"
  /\ currentRun' = NULL
  /\ flights' = Landed(f)
  /\ http' = <<Request("finalize", currentRun, <<>>, ok)>>
  /\ UNCHANGED <<config, reporters, runs, nextTestId, batch, apiRun, last,
                 handed, posted, registration, created>>

\* The JSON sink alone, with and without cleanOnStart, over runs started when
\* none is active, and the files it leaves in the output directory.
JSONConfigs ==
  {[Config(FALSE, TRUE, {"json"}, FALSE, DefaultBatchSize)
      EXCEPT !.cleanOnStart = c] : c \in BOOLEAN}

InitFiles == Constructed(JSONConfigs) /\ NoSteps /\ NoAdapter /\ NoHost

NextFiles ==
  \/ FilesStartRun
  \/ FilesReportTest
  \/ FilesEndRun

SpecFiles == InitFiles /\ [][NextFiles]_vars

\* The qagentic plugin under the default configuration: before:run,
\* after:spec with any results, after:run.
InitPlugin == Constructed({DefaultConfig}) /\ NoSteps /\ NoAdapter /\ NoHost

NextPlugin ==
  \/ PluginBeforeRun
  \/ \E tests \in PluginResults : PluginAfterSpec(tests)
  \/ PluginTest
  \/ PluginAfterRun

SpecPlugin == InitPlugin /\ [][NextPlugin]_vars

\* configure with any options and resetConfig, in any order.
InitConfig == Constructed({NoSinkConfig}) /\ NoSteps /\ NoAdapter /\ NoHost

NextConfig ==
  \/ \E options \in ConfigureOptions : Configure(options)
  \/ ResetConfig

SpecConfig == InitConfig /\ [][NextConfig]_vars

\* The orchestrator obtained through getInstance and reset, with runs
\* started and ended on the one obtained last.
InitSingleton == Constructed({NoSinkConfig}) /\ NoSteps /\ NoAdapter /\ NoHost

NextSingleton ==
  \/ \E arg \in InstanceArgs : GetInstance(arg)
  \/ Reset
  \/ singleton.got # NULL /\ StartRun /\ UNCHANGED <<tracker, cypress, host>>
  \/ singleton.got # NULL /\ EndRun /\ UNCHANGED <<tracker, cypress, host>>

SpecSingleton == InitSingleton /\ [][NextSingleton]_vars

\* The reporter with its sinks: any configuration, I/O that can fail, tests
\* that pass or fail.  The step tracker is not used.
Init == Constructed(Configs) /\ NoSteps /\ NoAdapter /\ NoHost

Next ==
  \/ StartRun /\ UNCHANGED <<tracker, cypress, host>>
  \/ ReportTest(TestInputs) /\ UNCHANGED <<tracker, cypress, host>>
  \/ EndRun /\ UNCHANGED <<tracker, cypress, host>>

Spec == Init /\ [][Next]_vars

\* The orchestrator's bookkeeping: tests of every status, sinks that cannot
\* fail.
InitCounters == Constructed(CounterConfigs) /\ NoSteps /\ NoAdapter /\ NoHost

NextCounters ==
  \/ StartRun /\ UNCHANGED <<tracker, cypress, host>>
  \/ ReportTest(StatusInputs) /\ UNCHANGED <<tracker, cypress, host>>
  \/ EndRun /\ UNCHANGED <<tracker, cypress, host>>

SpecCounters == InitCounters /\ [][NextCounters]_vars

\* The step tracker driven by hand: Step objects made with createStep and
\* started and ended in any order, with attach() called in between, MaxCalls
\* times in all.  The
\* reporter is not used.
InitSteps == Constructed({NoSinkConfig}) /\ NoSteps /\ NoAdapter /\ NoHost

NextSteps ==
  \/ CreateStep
  \/ \E s \in 1..Len(steps) : Start(s)
  \/ \E s \in 1..Len(steps), error \in Reasons : End(s, error)
  \/ Attach

SpecSteps == InitSteps /\ [][NextSteps]_vars

\* The step tracker driven through step(name, fn) alone: fn returns, throws
\* or returns a promise that fulfils or rejects later; step() is called from
\* the test body, from inside an fn, and from the continuations of pending
\* fns, which interleave between tasks.
NextStepFn ==
  \/ \E ctx \in 0..Len(frames) : StepFn(ctx)
  \/ \E v \in Values : FnReturns(v)
  \/ \E e \in Reasons : FnThrows(e)
  \/ FnReturnsPromise
  \/ \E f \in 1..Len(frames), v \in Values : Fulfils(f, v)
  \/ \E f \in 1..Len(frames), e \in Reasons : Rejects(f, e)

SpecStepFn == InitSteps /\ [][NextStepFn]_vars

\* Steps in LIFO nesting, timed: step(name, fn) with fns that return or throw
\* synchronously, called from the test body or from inside an fn, while the
\* clock advances between the calls.
NextNested ==
  \/ Tick
  \/ \E ctx \in 0..Len(frames) : StepFn(ctx)
  \/ \E v \in Values : FnReturns(v)
  \/ \E e \in Reasons : FnThrows(e)

SpecNested == InitSteps /\ [][NextNested]_vars

\* A Cypress run set up with setupQAgentic: after:spec events arrive one
\* after the other, each handled to its end before the next; the sinks are
\* none, the junit file alone, or the defaults.
InitCypress ==
  Constructed({NoSinkConfig, FilesConfig, DefaultConfig}) /\ NoSteps /\ NoAdapter /\ NoHost

NextCypress ==
  \/ \E tests \in SpecResults : AfterSpec(tests)
  \/ SendPendingTest
  \/ FinalizeRun
  \/ FinalizeEndRun

SpecCypress == InitCypress /\ [][NextCypress]_vars

\* startRun called with any options, under any configured labels, at any
\* time of the clock.
InitDefaults ==
  /\ Constructed({[NoSinkConfig EXCEPT !.labels = l] : l \in LabelMaps})
  /\ NoSteps
  /\ NoAdapter
  /\ NoHost

NextDefaults ==
  \/ \E options \in OptionsInputs :
       StartRunWith(options) /\ UNCHANGED <<tracker, cypress, host>>
  \/ Tick

SpecDefaults == InitDefaults /\ [][NextDefaults]_vars

\* The API sink alone, with a run started when none is active and reportTest
\* and endRun called without waiting for the calls before them: they
\* interleave where the batch POST and the finalize PATCH are awaited.
APIOnlyConfigs ==
  {Config(FALSE, FALSE, {"json"}, TRUE, b) : b \in 1..MaxBatchSize}

InitOverlap == Constructed(APIOnlyConfigs) /\ NoSteps /\ NoAdapter /\ NoHost

NextOverlap ==
  \/ currentRun = NULL /\ StartRun /\ UNCHANGED <<tracker, cypress, host>>
  \/ ReportTestBegins(TestInputs) /\ UNCHANGED <<tracker, cypress, host>>
  \/ EndRunBegins /\ UNCHANGED <<tracker, cypress, host>>
  \/ \E f \in 1..Len(flights), ok \in BOOLEAN :
       PostSettles(f, ok) /\ UNCHANGED <<tracker, cypress, host>>
  \/ \E f \in 1..Len(flights), ok \in BOOLEAN :
       PatchSettles(f, ok) /\ UNCHANGED <<tracker, cypress, host>>

SpecOverlap == InitOverlap /\ [][NextOverlap]_vars

\* =============================================================== claims
\* What the claims read off a state.
Resolved == last.outcome = "resolved"

\* The last call was a transition of an active run.
Transition ==
  \/ last.op = "startRun"
  \/ last.op \in {"reportTest", "endRun"} /\ last.before # NULL

HasSink(s) == \E i \in 1..Len(reporters) : reporters[i] = s

\* Where event ev stands in the sink calls of the last call (0: nowhere).
At(ev) ==
  IF \E k \in 1..Len(last.calls) : last.calls[k] = ev
  THEN CHOOSE k \in 1..Len(last.calls) : last.calls[k] = ev
  ELSE 0

\* n callbacks, one per sink, in order, each settled before the next begins.
OneByOne(n) ==
  [k \in 1..(2 * n) |->
     IF k % 2 = 1 THEN <<"begin", (k + 1) \div 2>> ELSE <<"settle", k \div 2>>]

CountOf(run, status) ==
  Cardinality({i \in 1..Len(run.tests) : run.tests[i].status = status})

Buckets(run) == run.passed + run.failed + run.broken + run.skipped

\* C1: when no sink throws, the run startRun returns is the active run,
\* reportTest leaves the active run in place, and endRun returns the run that
\* was active and leaves no run active.
C1_Lifecycle ==
  /\ (last.op = "startRun" /\ Resolved) =>
       /\ last.val = "run"
       /\ last.run \in 1..Len(runs)
       /\ runs[last.run].id = last.run
       /\ GetCurrentRun = last.run
  /\ (last.op = "reportTest" /\ last.before # NULL /\ Resolved) =>
       GetCurrentRun = last.before
  /\ (last.op = "endRun" /\ last.before # NULL /\ Resolved) =>
       /\ last.val = "run"
       /\ last.run = last.before
       /\ GetCurrentRun = NULL

\* C1 witness: a run with every sink registered was started, got a test and
\* was ended, no sink having thrown in endRun.
C1_Witness ==
  /\ last.op = "endRun" /\ last.before # NULL /\ Resolved
  /\ Len(reporters) = 4
  /\ Len(runs[last.run].tests) >= 1

\* C2 as stated: in every run, total is the sum of the four buckets, whatever
\* the statuses of the tests reported.
C2_TotalIsSumOfBuckets ==
  \A r \in 1..Len(runs) : runs[r].total = Buckets(runs[r])

\* C2 as amended: total is the sum of the four buckets plus the number of
\* tests reported with status pending, running or unknown.
C2_TotalIsBucketsPlusUncounted ==
  \A r \in 1..Len(runs) :
    runs[r].total =
      Buckets(runs[r]) + CountOf(runs[r], "pending")
      + CountOf(runs[r], "running") + CountOf(runs[r], "unknown")

\* C2 witness: a run holding a counted and an uncounted test.
C2_Witness ==
  \E r \in 1..Len(runs) :
    /\ CountOf(runs[r], "unknown") >= 1
    /\ CountOf(runs[r], "skipped") >= 1
    /\ last.op = "reportTest"

\* C3: a run's tests are the results reported to it, in call order, total is
\* their number, and each bucket is the number of them with that status.
C3_CountersAreARecount ==
  \A r \in 1..Len(runs) :
    LET run == runs[r] IN
    /\ \A i, j \in 1..Len(run.tests) : i < j => run.tests[i].id < run.tests[j].id
    /\ \A i \in 1..Len(run.tests) : run.tests[i].id < nextTestId
    /\ run.total = Len(run.tests)
    /\ run.passed = CountOf(run, "passed")
    /\ run.failed = CountOf(run, "failed")
    /\ run.broken = CountOf(run, "broken")
    /\ run.skipped = CountOf(run, "skipped")
    /\ (last.op = "reportTest" /\ last.before = r) =>
         run.tests[Len(run.tests)].id = last.test

\* C3 witness: three tests of three statuses reported to one run.
C3_Witness ==
  \E r \in 1..Len(runs) :
    /\ Len(runs[r].tests) = 3
    /\ runs[r].failed = 1 /\ runs[r].broken = 1 /\ runs[r].passed = 1

\* A call made while no run is active.
IdleCall == currentRun = NULL /\ last'.op \in {"reportTest", "endRun"}

IdleCallChangesNothing ==
  /\ UNCHANGED <<config, reporters, currentRun, runs, nextTestId, batch, apiRun>>
  /\ last'.calls = <<>>
  /\ http' = <<>>
  /\ last'.outcome = "resolved"
  /\ last'.val = IF last'.op = "reportTest" THEN "undefined" ELSE "null"

C5_EverySinkOnceInOrder ==
  Transition => last.calls = OneByOne(Len(reporters))

\* C6: a sink throwing in reportTest does not keep the sinks registered after
\* it from receiving that call, and an endRun whose own callbacks do not throw
\* hands every sink the run and returns it.
C6_ThrowingSinkIsSkipped ==
  /\ (last.op = "reportTest" /\ last.before # NULL) =>
       \A i, j \in 1..Len(reporters) :
         (i < j /\ At(<<"throw", i>>) > 0) => At(<<"begin", j>>) > 0
  /\ (last.op = "endRun" /\ last.before # NULL
      /\ \A i \in 1..Len(reporters) : At(<<"throw", i>>) = 0) =>
       /\ \A j \in 1..Len(reporters) : At(<<"begin", j>>) > 0
       /\ Resolved /\ last.run = last.before

\* C7: no call of the orchestrator rejects.
C7_NoCallRejects == Resolved

\* C8 as stated: with the console and the file sinks registered, the console's
\* endRun begins only after the file sinks' endRun callbacks have settled.
C8_ConsoleAfterFiles ==
  (last.op = "endRun" /\ last.before # NULL) =>
    \A i, j \in 1..Len(reporters) :
      (reporters[i] = "console" /\ reporters[j] \in {"json", "junit"}
       /\ At(<<"begin", i>>) > 0) =>
        (At(<<"settle", j>>) > 0 /\ At(<<"settle", j>>) < At(<<"begin", i>>))

\* C8 as amended: the console is registered first, so its endRun has settled
\* before the endRun of any file sink begins.
C8_ConsoleBeforeFiles ==
  (last.op = "endRun" /\ last.before # NULL) =>
    \A i, j \in 1..Len(reporters) :
      (reporters[i] = "console" /\ reporters[j] \in {"json", "junit"}) =>
        /\ At(<<"settle", i>>) > 0
        /\ At(<<"begin", j>>) > 0 => At(<<"settle", i>>) < At(<<"begin", j>>)

\* C8 witness: endRun went through the console and both file sinks.
C8_Witness ==
  /\ last.op = "endRun" /\ last.before # NULL /\ Resolved
  /\ HasSink("console") /\ HasSink("json") /\ HasSink("junit")

\* C9: the run endRun has just sealed carries passRate 0 when it has no test
\* and passed / total * 100 otherwise, on the counters it ends with; three
\* passed tests of four make 75.
C9_PassRate ==
  (last.op = "endRun" /\ last.before # NULL) =>
    LET run == runs[last.before] IN
    /\ run.ended
    /\ run.passRate.den > 0
    /\ run.total = 0 => run.passRate.num = 0
    /\ run.total > 0 =>
         run.passRate.num * run.total = run.passed * 100 * run.passRate.den
    /\ PassRate(3, 4).num = 75 * PassRate(3, 4).den

\* C9 witness: a run of two passed tests and one test that did not pass was
\* ended (pass rate 200/3).
C9_Witness ==
  /\ last.op = "endRun" /\ last.before # NULL
  /\ runs[last.before].total = 3
  /\ runs[last.before].passed = 2

\* The API sink's reportTest ran in the last call.
APIReported ==
  /\ last.op = "reportTest" /\ last.before # NULL
  /\ \E i \in 1..Len(reporters) :
       reporters[i] = "api" /\ At(<<"settle", i>>) > 0

Flushed == \E k \in 1..Len(http) : http[k].req = "results"

\* C10: the API sink's reportTest appends the test and flushes exactly when
\* the buffer reaches the batch size; a flush empties the buffer whatever the
\* POST's outcome; so the buffer ends below the batch size.
C10_BufferBelowBatchSize ==
  APIReported =>
    /\ Flushed <=> last.batchBefore + 1 >= config.batchSize
    /\ Flushed => batch = <<>>
    /\ ~Flushed => Len(batch) = last.batchBefore + 1
    /\ Len(batch) < config.batchSize

\* The API sink's callback of the last call ran to its end.
APISettled ==
  \E i \in 1..Len(reporters) : reporters[i] = "api" /\ At(<<"settle", i>>) > 0

\* The requests of one kind the last call issued, in order.
Requests(kind) == SelectSeq(http, LAMBDA q : q.req = kind)

\* The number of tests the API sink was handed during run r, and the batches
\* it POSTed from call `op` during run r.
HandedIn(r) == Cardinality({k \in 1..Len(handed) : handed[k].during = r})

FlushesIn(r, op) == SelectSeq(posted, LAMBDA p : p.during = r /\ p.op = op)

\* C11: with batch size B, once the API sink has been handed N tests in a run
\* its reportTest has flushed exactly N div B batches, each of exactly B
\* tests, and its endRun flushes one more batch, of N mod B tests, exactly
\* when N mod B is not zero.
C11_BatchesOfBatchSize ==
  \A r \in 1..Len(runs) :
    LET N == HandedIn(r)
        B == config.batchSize
        auto == FlushesIn(r, "reportTest")
        final == FlushesIn(r, "endRun")
    IN /\ Len(auto) = N \div B
       /\ \A k \in 1..Len(auto) : Len(auto[k].tests) = B
       /\ (last.op = "endRun" /\ last.before = r /\ APISettled) =>
            /\ Len(final) = IF N % B # 0 THEN 1 ELSE 0
            /\ \A k \in 1..Len(final) : Len(final[k].tests) = N % B

\* What the API sink's endRun sends for run r with n tests buffered: the n
\* tests in one POST when n > 0, then the PATCH of run r, once, and last.
FlushThenFinalize(r, n) ==
  LET posts == Requests("results")
      patches == Requests("finalize")
  IN /\ Len(patches) = 1
     /\ patches[1].run = r
     /\ http[Len(http)].req = "finalize"
     /\ Len(posts) = IF n > 0 THEN 1 ELSE 0
     /\ \A k \in 1..Len(posts) : Len(posts[k].tests) = n

\* C12: the API sink's endRun POSTs the tests still buffered before it issues
\* the finalize PATCH, and issues that PATCH exactly once, whatever the
\* outcome of the POST.
C12_FlushThenFinalizeOnce ==
  (last.op = "endRun" /\ last.before # NULL /\ APISettled) =>
    FlushThenFinalize(last.before, last.batchBefore)

C14_APISinkNeverThrows ==
  \A i \in 1..Len(reporters) :
    reporters[i] = "api" =>
      /\ At(<<"throw", i>>) = 0
      /\ At(<<"begin", i>>) > 0 => At(<<"settle", i>>) > 0

\* C14 witness: the API sink's endRun settled although the flush POST and the
\* finalize PATCH both failed, in a run whose registration had failed.
C14_Witness ==
  /\ last.op = "endRun" /\ APISettled
  /\ registration = "failed"
  /\ Len(http) = 2
  /\ \A k \in 1..Len(http) : ~http[k].ok

\* C15: after a failed registration POST the sink holds the run all the same;
\* while that run is the orchestrator's run, reportTest buffers each test and
\* flushes to that run's id when the batch size is reached, and endRun
\* flushes what is left to that run's id and issues the finalize PATCH.
C15_RunProceedsUnregistered ==
  registration = "failed" =>
    /\ apiRun # NULL
    /\ (last.op = "startRun" /\ APISettled) =>
         (apiRun = currentRun /\ batch = <<>>)
    /\ (APIReported /\ apiRun = last.before) =>
         /\ Flushed <=> last.batchBefore + 1 >= config.batchSize
         /\ \A k \in 1..Len(http) :
              /\ http[k].req = "results"
              /\ http[k].run = apiRun
              /\ Len(http[k].tests) = last.batchBefore + 1
              /\ http[k].tests[Len(http[k].tests)] = last.test
         /\ ~Flushed =>
              /\ Len(batch) = last.batchBefore + 1
              /\ batch[Len(batch)].id = last.test
    /\ (last.op = "endRun" /\ APISettled /\ apiRun = last.before) =>
         /\ FlushThenFinalize(apiRun, last.batchBefore)
         /\ \A k \in 1..Len(http) : http[k].run = apiRun

\* C15 witness: in a run whose registration failed, a test was flushed by
\* reportTest and endRun then flushed another and sent the PATCH.
C15_Witness ==
  /\ registration = "failed"
  /\ last.op = "endRun" /\ APISettled /\ apiRun = last.before
  /\ last.batchBefore > 0
  /\ Len(FlushesIn(apiRun, "reportTest")) >= 1
  /\ Len(http) = 2

\* The last call was end() on the step on top of the stack, and every call
\* up to it started a fresh step or ended the step on top.
LifoEnd == lastOp'.op = "end" /\ lastOp'.lifo

\* C16: with start and end called in LIFO order, end() takes the step off the
\* top of the stack and, when a step remains, appends the ended step as the
\* last child of the step now on top; no other children list changes, and the
\* ended step was in none before.
C16_EndAttachesToNewTop ==
  [][LifoEnd =>
       LET s == lastOp'.step
           n == Len(currentSteps)
       IN /\ n >= 1
          /\ currentSteps[n] = s
          /\ currentSteps' = SubSeq(currentSteps, 1, n - 1)
          /\ \A p \in 1..Len(steps) :
               /\ steps'[p].children =
                    IF n > 1 /\ p = currentSteps[n - 1]
                    THEN Append(steps[p].children, s)
                    ELSE steps[p].children
               /\ \A i \in 1..Len(steps[p].children) :
                    steps[p].children[i] # s]_vars

\* C16 witness: start(A), start(B), B.end(), A.end() have run: A's children
\* are B alone, B has none, the stack is empty.
C16_Witness ==
  /\ lastOp.op = "end" /\ lastOp.lifo /\ lastOp.step = 1
  /\ Len(steps) >= 2
  /\ steps[1].ends = 1 /\ steps[2].ends = 1
  /\ steps[1].children = <<2>>
  /\ steps[2].children = <<>>
  /\ currentSteps = <<>>

\* The invocation of step() has not ended its step yet.
Open(f) == frames[f].state \in {"running", "pending"}

\* C17: step() starts its step once, and ends it exactly once when fn has
\* returned, thrown, or its promise has fulfilled or rejected, and not before.
C17_StartOnceEndOnce ==
  \A f \in 1..Len(frames) :
    LET s == steps[frames[f].step] IN
    /\ s.starts = 1
    /\ s.ends = IF Open(f) THEN 0 ELSE 1

\* C17 witness: one fn has thrown, the promise of another has fulfilled and
\* that of a third has rejected.
C17_Witness ==
  \E f, g, h \in 1..Len(frames) :
    /\ frames[f].state = "threw"
    /\ frames[g].state = "fulfilled"
    /\ frames[h].state = "rejected"

\* C18: when fn throws or its promise rejects, the step is failed with the
\* error's message and the caller gets the same error; when fn completes, the
\* step is passed and the caller gets fn's value.
C18_FailedOnErrorPassedOnValue ==
  \A f \in 1..Len(frames) :
    LET s == steps[frames[f].step] IN
    /\ frames[f].state \in {"threw", "rejected"} =>
         /\ s.status = "failed"
         /\ s.error = Message(frames[f].result)
         /\ frames[f].out = frames[f].result
    /\ frames[f].state \in {"returned", "fulfilled"} =>
         /\ s.status = "passed"
         /\ frames[f].out = frames[f].result

\* A step() was just called from inside the fn of invocation f.
CalledInside(f) == lastOp.op = "step" /\ lastOp.ctx = f

\* The step that was current when the step() just made was called: the new
\* step was pushed on top of it.
CurrentAtCall ==
  IF Len(currentSteps) >= 2 THEN currentSteps[Len(currentSteps) - 1] ELSE NoStep

\* Until fn's promise settles (and while fn executes), its step has not been
\* ended, is on the stack and is running.
StaysRunning(f) ==
  LET s == frames[f].step IN
  /\ steps[s].ends = 0
  /\ steps[s].status = "running"
  /\ \E i \in 1..Len(currentSteps) : currentSteps[i] = s

\* C19: until the promise of fn settles its step is not ended, stays on the
\* stack with status running, and is the current step for whatever is done
\* inside fn's continuation.
C19_PendingStepIsCurrent ==
  \A f \in 1..Len(frames) :
    Open(f) =>
      /\ StaysRunning(f)
      /\ CalledInside(f) => CurrentAtCall = frames[f].step

\* p.children holds c.
ChildOf(p, c) ==
  \E i \in 1..Len(steps[p].children) : steps[p].children[i] = c

\* c is reached from p along at most n children links.
RECURSIVE Reaches(_, _, _)
Reaches(p, c, n) ==
  /\ n > 0
  /\ \/ ChildOf(p, c)
     \/ \E m \in 1..Len(steps) : ChildOf(p, m) /\ Reaches(m, c, n - 1)

\* How many entries of all the children lists are step c.
Occurrences(c) ==
  Cardinality({pi \in (1..Len(steps)) \X (1..MaxCalls) :
                 /\ pi[2] <= Len(steps[pi[1]].children)
                 /\ steps[pi[1]].children[pi[2]] = c})

\* C20: whatever start() and end() calls are made, no step is its own
\* descendant and no step occurs more than once in all the children lists.
C20_ChildrenFormAForest ==
  \A c \in 1..Len(steps) :
    /\ ~Reaches(c, c, Len(steps))
    /\ Occurrences(c) <= 1

\* How many entries of a stack are step s.
OnStack(stack, s) == Cardinality({i \in 1..Len(stack) : stack[i] = s})

\* The stack `after` is the stack `before` without its entry at position i.
Without(before, i, after) ==
  /\ Len(after) = Len(before) - 1
  /\ \A j \in 1..(i - 1) : after[j] = before[j]
  /\ \A j \in i..Len(after) : after[j] = before[j + 1]

\* An end() call on a step that is on the stack and is not the step on top.
EndBelowTop ==
  /\ lastOp'.op = "end"
  /\ OnStack(currentSteps, lastOp'.step) > 0
  /\ GetCurrentStep # lastOp'.step

\* C21: end() on a started step that is not on top of the stack takes one
\* entry off the stack, an entry that holds this step; the entries below and
\* above it stay, in their order; and a step that was on the stack once is on
\* it no more.  The call returns: the model's end() has no other outcome, as
\* Step.end has no statement that throws.
C21_EndBelowTopRemovesTheStep ==
  [][EndBelowTop =>
       LET s == lastOp'.step IN
         /\ \E i \in 1..Len(currentSteps) :
              /\ currentSteps[i] = s
              /\ Without(currentSteps, i, currentSteps')
         /\ OnStack(currentSteps, s) = 1 => OnStack(currentSteps', s) = 0
         /\ steps'[s].ends = steps[s].ends + 1]_vars

\* Steps 1, 2 and 3 were started in this order and step 1 was ended first:
\* the stack holds 2 and 3, and step 1 is a child of step 3.
C21_Witness ==
  /\ lastOp.op = "end" /\ lastOp.step = 1 /\ ~lastOp.lifo
  /\ Len(steps) = 3
  /\ \A s \in 1..3 : steps[s].starts = 1
  /\ steps[1].ends = 1
  /\ currentSteps = <<2, 3>>
  /\ steps[3].children = <<1>>

\* The direct children of step p, and all the steps below it.
Children(p) == {c \in 1..Len(steps) : ChildOf(p, c)}

Descendants(p) == {c \in 1..Len(steps) : Reaches(p, c, Len(steps))}

\* C22: with steps nested in LIFO order and a clock that never goes back,
\* a step that has ended has endTime >= startTime, a child starts no earlier
\* than its parent, and once the parent has ended the child's endTime is no
\* later than the parent's.
C22_ChildWithinParent ==
  /\ \A s \in 1..Len(steps) :
       steps[s].ends > 0 =>
         /\ steps[s].startTime # NoTime
         /\ steps[s].endTime >= steps[s].startTime
  /\ \A p \in 1..Len(steps) : \A c \in Children(p) :
       /\ steps[c].ends > 0
       /\ steps[p].startTime <= steps[c].startTime
       /\ steps[p].ends > 0 => steps[c].endTime <= steps[p].endTime

\* Step 1 has ended with step 2 as its child; step 2 started after step 1
\* and took time.
C22_Witness ==
  /\ lastOp.lifo
  /\ Len(steps) >= 2
  /\ steps[1].ends = 1
  /\ steps[1].children = <<2>>
  /\ steps[1].startTime < steps[2].startTime
  /\ steps[2].startTime < steps[2].endTime
  /\ steps[2].endTime <= steps[1].endTime

\* The sum of the durations of a set of steps.
RECURSIVE SumOfDurations(_)
SumOfDurations(S) ==
  IF S = {} THEN 0
  ELSE LET s == CHOOSE x \in S : TRUE
       IN steps[s].durationMs + SumOfDurations(S \ {s})

\* A step that has ended and is no step's child: the root of a finished tree.
Root(r) ==
  /\ steps[r].ends > 0
  /\ \A p \in 1..Len(steps) : ~ChildOf(p, r)

\* C23 as stated: with steps nested in LIFO order, the durations of all the
\* descendants of a root, at every depth, sum to at most the root's duration.
C23_DescendantsWithinRoot ==
  \A r \in 1..Len(steps) :
    Root(r) => SumOfDurations(Descendants(r)) <= steps[r].durationMs

\* C23 amended: with steps nested in LIFO order and a clock that never goes
\* back, the durations of the direct children of a step that has ended sum to
\* at most the step's own duration.
C23_ChildrenWithinParent ==
  \A p \in 1..Len(steps) :
    steps[p].ends > 0 =>
      SumOfDurations(Children(p)) <= steps[p].durationMs

\* Step 1 has ended with steps 2 and 3 as its children, both of which took
\* time.
C23_Witness ==
  /\ lastOp.lifo
  /\ Len(steps) = 3
  /\ steps[1].ends = 1
  /\ steps[1].children = <<2, 3>>
  /\ steps[2].durationMs > 0
  /\ steps[3].durationMs > 0

\* Every attachment held by a container: the test-level list or some step.
Held ==
  {testAttachments[i] : i \in 1..Len(testAttachments)} \cup
  UNION {{steps[s].attachments[i] : i \in 1..Len(steps[s].attachments)} :
           s \in 1..Len(steps)}

\* The list `after` is the list `before` with one entry, held by no container
\* until now, added at its end.
OneAdded(before, after) ==
  /\ Len(after) = Len(before) + 1
  /\ SubSeq(after, 1, Len(before)) = before
  /\ after[Len(after)] \notin Held

\* C24: attach() adds one new attachment at the end of the attachments of the
\* step on top of the stack, or of the test-level list when the stack is
\* empty; the other container, every other step, every other field of the
\* step on top, and the stack stay as they were.
C24_AttachAddsToOneContainer ==
  [][lastOp'.op = "attach" =>
       LET top == GetCurrentStep IN
         /\ currentSteps' = currentSteps
         /\ Len(steps') = Len(steps)
         /\ IF top # NoStep
            THEN /\ OneAdded(steps[top].attachments, steps'[top].attachments)
                 /\ steps' = [steps EXCEPT ![top].attachments =
                                             steps'[top].attachments]
                 /\ testAttachments' = testAttachments
            ELSE /\ OneAdded(testAttachments, testAttachments')
                 /\ steps' = steps]_vars

\* attach() was called with the stack empty, and again with step 2 on top of
\* step 1: the first attachment is at test level, the second in step 2.
C24_Witness ==
  /\ lastOp.op = "attach" /\ lastOp.step = 2
  /\ currentSteps = <<1, 2>>
  /\ testAttachments = <<1>>
  /\ steps[1].attachments = <<>>
  /\ steps[2].attachments = <<2>>

\* C25: a run that endRun has returned is no longer the run in the slot, the
\* slot only ever moves on to no run or to a run created by the call, and no
\* call changes a run that is not in the slot; so whatever is called after
\* endRun returned R (reportTest while idle, startRun, reportTest and endRun
\* of a later run), R keeps its tests, counters, end and passRate.
C25_ReturnedRunIsSealed ==
  [][/\ last'.op = "endRun" /\ last'.val = "run" => currentRun' # last'.run
     /\ \/ currentRun' \in {currentRun, NULL}
        \/ currentRun' \in (Len(runs) + 1)..Len(runs')
     /\ \A r \in 1..Len(runs) : r # currentRun => runs'[r] = runs[r]]_vars

\* No sink is configured, so every endRun returns its run: run 1 was
\* returned with one test, then run 2 was started, given a test and ended,
\* and run 1 is as it was returned.
C25_Witness ==
  /\ config = NoSinkConfig
  /\ last.op = "endRun" /\ last.val = "run" /\ last.run = 2
  /\ runs[1].ended /\ runs[1].total = 1 /\ Len(runs[1].tests) = 1
  /\ runs[2].ended /\ Len(runs[2].tests) >= 1
  /\ currentRun = NULL

\* The number of tests accepted into the orchestrator's runs.
RECURSIVE AcceptedFrom(_)
AcceptedFrom(r) ==
  IF r > Len(runs) THEN 0 ELSE Len(runs[r].tests) + AcceptedFrom(r + 1)

\* C26: with setupQAgentic, once the handler of an after:spec event is done,
\* the tests accepted into orchestrator runs are as many as the tests of all
\* the specs seen so far.
C26_EveryTestCaptured ==
  cypress.pc = "idle" => AcceptedFrom(1) = cypress.seen

\* The last call was an endRun in which the JUnit sink generated its XML.
JUnitEmitted ==
  /\ last.op = "endRun" /\ last.before # NULL
  /\ config.localEnabled /\ "junit" \in config.formats
  /\ \E i \in 1..Len(reporters) : \E k \in 1..Len(last.calls) :
       reporters[i] = "junit" /\ last.calls[k] = <<"begin", i>>
  /\ ~GenerateXmlThrows(runs[last.before])

\* C27: for the sealed run handed to the JUnit sink, the testsuite
\* attributes tests, failures, errors and skipped equal the numbers of
\* <testcase>, <failure>, <error> and <skipped> elements emitted.
C27_JUnitAttributesMatchElements ==
  JUnitEmitted =>
    LET xml == GenerateXml(runs[last.before]) IN
      /\ xml.tests = xml.testcase
      /\ xml.failures = xml.failure
      /\ xml.errors = xml.error
      /\ xml.skipped = xml.skippedElements

\* C28 as stated: the run id is options.id when one is given and a fresh
\* generated id otherwise; the name is options.name when one is given and
\* derived from the timestamp otherwise; the labels are the configured labels
\* overlaid with the per-call labels, the per-call value winning.
Given(value) == value # "undefined"

Fresh(id) == id \notin created.earlier /\ \E n \in 1..Len(runs) : id = Uuid(n)

LabelsOverlaid ==
  /\ DOMAIN created.run.labels =
       DOMAIN config.labels \cup DOMAIN created.options.labels
  /\ \A k \in DOMAIN created.options.labels :
       created.run.labels[k] = created.options.labels[k]
  /\ \A k \in DOMAIN config.labels \ DOMAIN created.options.labels :
       created.run.labels[k] = config.labels[k]

C29_EndRunLeavesIdle ==
  (last.op = "endRun" /\ last.before # NULL) => GetCurrentRun = NULL

\* C30: where no sink can fail, every callback of a call reaches every sink,
\* so a sink that is handed a startRun has been handed the startRun of the
\* run active before it and no endRun for it.  Well-bracketed means: the
\* sinks are handed a startRun only when the run before has been ended, and
\* a reportTest only for a test counted in the run that is active and not
\* ended.
C30_SinksSeeBracketedRuns ==
  /\ (last.op = "startRun" /\ Len(last.calls) > 0) => last.before = NULL
  /\ (last.op = "reportTest" /\ Len(last.calls) > 0) =>
       /\ last.before # NULL
       /\ ~runs[last.before].ended
       /\ \E i \in 1..Len(runs[last.before].tests) :
            runs[last.before].tests[i].id = last.test

\* The tests the API sink has POSTed so far, in any batch.
EverPosted ==
  UNION {{posted[i].tests[a] : a \in 1..Len(posted[i].tests)} :
           i \in 1..Len(posted)}

\* C31: every test the API sink was handed is still in its buffer or has been
\* part of a batch POST, and after an endRun of the sink the buffer is empty.
C31_BufferedUntilPosted ==
  /\ \A k \in 1..Len(handed) :
       \/ \E b \in 1..Len(batch) : batch[b].id = handed[k].test
       \/ handed[k].test \in EverPosted
  /\ (last.op = "endRun" /\ last.before # NULL /\ APISettled) => batch = <<>>

\* A batch POST of the API sink has just settled.
BatchPostSettles == Len(http') = 1 /\ http'[1].req = "results"

\* C32: with reportTest and endRun calls interleaving at the flush POST, the
\* clearing of the buffer when the POST settles removes no test that has not
\* been part of a batch POST: a test appended while the POST was in flight is
\* kept for a later flush unless a flush has sent it.
C32_AppendedInFlightIsSent ==
  [][BatchPostSettles =>
       \A b \in 1..Len(batch) :
         \/ batch[b].id \in EverPosted
         \/ \E c \in 1..Len(batch') : batch'[c] = batch[b]]_vars


\* C33: under any sequence of start() and end() calls on Step objects, every
\* step on the step stack has status running and is on the stack at most
\* once, and every step whose status is passed or failed is not on the stack.
C33_StackHoldsRunningStepsOnce ==
  /\ \A i \in 1..Len(currentSteps) :
       /\ steps[currentSteps[i]].status = "running"
       /\ OnStack(currentSteps, currentSteps[i]) <= 1
  /\ \A s \in 1..Len(steps) :
       steps[s].status \in {"passed", "failed"} => OnStack(currentSteps, s) = 0


\* The step is the adapter's call of the orchestrator's startRun, reportTest,
\* endRun.
AdapterStartsRun == cypress.pc = "idle" /\ last'.op = "startRun" /\ last' # last

AdapterReportsTest == cypress.pc = "send" /\ cypress' # cypress /\ last'.op = "reportTest"

AdapterEndsRun == cypress.pc = "endRun" /\ cypress'.pc = "idle"

\* The adapter's endRun has been called and has returned.
AdapterRunEnded == cypress.runFinalized /\ cypress.pc \in {"idle", "send"}

\* C34: with setupQAgentic, over any sequence of after:spec events, the
\* orchestrator's startRun is called at most once and its endRun at most
\* once, and no reportTest is issued to the orchestrator after that endRun.
C34_OneRunPerCypressSession ==
  [][/\ AdapterStartsRun => ~cypress.runStarted
     /\ AdapterEndsRun => cypress.specs = 1
     /\ AdapterReportsTest => ~AdapterRunEnded]_vars


\* C35: for a run driven through setupQAgentic, the counters of the run handed
\* to the sinks at endRun are a recount of the run's tests by status, for
\* every mix of the Cypress states passed, failed, pending and skipped.
C35_CypressRunCountersAreARecount ==
  (cypress.runFinalized /\ last.op = "endRun" /\ last.before # NULL) =>
    LET run == runs[last.before] IN
      /\ run.total = Len(run.tests)
      /\ run.passed = CountOf(run, "passed")
      /\ run.failed = CountOf(run, "failed")
      /\ run.broken = CountOf(run, "broken")
      /\ run.skipped = CountOf(run, "skipped")


\* C36: with cleanOnStart enabled, over complete runs writing to the same
\* output directory, after a run's endRun the JSON files present belong to
\* that run only: run.json describes it and every tests/<id>.json is the
\* file of one of its tests.
C36_FilesBelongToTheRunEnded ==
  (config.cleanOnStart /\ last.op = "endRun" /\ last.before # NULL /\ Resolved) =>
    /\ outputDir.run = last.before
    /\ \A id \in outputDir.tests :
         \E i \in 1..Len(runs[last.before].tests) :
           runs[last.before].tests[i].id = id


\* The step is a getInstance call.
GetInstanceReturns ==
  singleton' # singleton /\ singleton'.got # NULL /\ singleton'.instance # NULL

\* C37: getInstance returns the same orchestrator on every call until
\* reset() is called, a config passed to a later call neither creating nor
\* reconfiguring one, and the first getInstance after reset() returns a
\* fresh orchestrator with no active run.
C37_OneInstanceUntilReset ==
  [][GetInstanceReturns =>
       IF singleton.instance # NULL
       THEN /\ singleton'.got = singleton.instance
            /\ singleton'.instance = singleton.instance
            /\ singleton'.made = singleton.made
            /\ config' = config /\ reporters' = reporters
            /\ currentRun' = currentRun
       ELSE /\ singleton'.got > singleton.made
            /\ singleton'.instance = singleton'.got
            /\ currentRun' = NULL]_vars

\* C37 witness: reset() was called while a run was active, and getInstance,
\* given a config, has returned a second orchestrator, which has no run.
C37_Witness ==
  /\ singleton.made = 2 /\ singleton.got = 2 /\ singleton.arg = "console"
  /\ currentRun = NULL
  /\ \E r \in 1..Len(runs) : ~runs[r].ended


\* C38: after any sequence of configure() calls, resetConfig() restores the
\* defaults, getConfig() being the original defaults in every nested field,
\* and a configure() with no options yields the original defaults as well.
C38_ResetRestoresDefaults ==
  (\/ settings.op = "resetConfig"
   \/ settings.op = "configure" /\ settings.options = NoConfigureOptions) =>
    GetConfig = OriginalDefaults


\* C39: for any after:spec payload handed to the qagentic plugin, tests with
\* a missing state, duration or error included, every test is mapped to a
\* TestResult with defaults (status unknown, zero duration) and the handler's
\* promise never rejects.
C39_HandlerDefaultsAndNeverRejects ==
  /\ plugin.outcome # "rejected"
  /\ (plugin.pc = "idle" /\ plugin.outcome = "resolved") =>
       Len(plugin.mapped) = Len(plugin.tests)
  /\ \A k \in 1..Len(plugin.mapped) :
       LET test == plugin.mapped[k].test
           result == plugin.mapped[k].result
       IN /\ test.state = "undefined" => result.status = "unknown"
          /\ test.duration = "undefined" => result.durationMs = "0"

====
